---- MODULE Spec2Model ----
(***************************************************************************)
(* A model of the lexer (package tokenize) and of the recursive-descent    *)
(* parser (package parser) of the interpreter.                             *)
(*                                                                         *)
(* A code point is a one-character string, the source text a sequence of   *)
(* code points.  The lexer is a state machine with one action per          *)
(* iteration of the loop of Tokenizer.Tokenize; the scanning functions     *)
(* called from the loop (number, string, identifier, consumeIfNext,        *)
(* consumeUntilEOL) are operators on the scanner's state, written loop     *)
(* iteration by loop iteration as the code runs them.                      *)
(***************************************************************************)
EXTENDS Integers, Sequences, FiniteSets, TLC

\* Longest source text over the number alphabet.
MaxLen == 5
\* Longest source text over the other alphabets.
MaxShort == 4

VARIABLES
    input,          \* the source text, read through bufio.Reader
    r,              \* bufio.Reader: number of code points consumed
    lastRuneSize,   \* bufio.Reader: 1 after a successful ReadRune, else -1
    line,           \* Tokenizer.line
    column,         \* Tokenizer.column
    tokens,         \* the tokens appended so far
    err,            \* the error Tokenize returns
    done,           \* Tokenize has returned
    starts,         \* history: for each token, the offset of its first code point
    ends,           \* history: for each token, the offset of the last code point read for it
    errAt,          \* history: offset of the code point the error is about
    ptokens,        \* Parser.tokens
    curTokenIdx,    \* Parser.curTokenIdx
    statements,     \* the statements Parse has appended so far
    perr,           \* the error Parse returns
    pdone           \* Parse has returned

lexVars == <<input, r, lastRuneSize, line, column, tokens, err, done, starts, ends, errAt>>

parseVars == <<ptokens, curTokenIdx, statements, perr, pdone>>

vars == <<input, r, lastRuneSize, line, column, tokens, err, done, starts, ends, errAt,
          ptokens, curTokenIdx, statements, perr, pdone>>

(***************************************************************************)
(* Code points                                                             *)
(***************************************************************************)

\* The rune ReadRune returns with an error (0).
NUL == "NUL"

\* The backspace code point, which no string literal of TLA+ denotes.
BS == "BS"

Digits == {"0", "1", "2", "3", "4", "5", "6", "7", "8", "9"}

Letters ==
    {"a", "b", "c", "d", "e", "f", "g", "h", "i", "j", "k", "l", "m", "n",
     "o", "p", "q", "r", "s", "t", "u", "v", "w", "x", "y", "z"}

IsSpace(c) == c \in {" ", "\t", "\n", "\r", "\f"}

IsDigit(c) == c \in Digits

IsLetter(c) == c \in Letters

SingleRunes == {"(", ")", "{", "}", ",", "-", "+", "*", ";"}

singleRuneTokenType(c) ==
    CASE c = "(" -> "TokenLeftParen"
      [] c = ")" -> "TokenRightParen"
      [] c = "{" -> "TokenLeftCurly"
      [] c = "}" -> "TokenRightCurly"
      [] c = "," -> "TokenComma"
      [] c = "-" -> "TokenMinus"
      [] c = "+" -> "TokenPlus"
      [] c = "*" -> "TokenStar"
      [] c = ";" -> "TokenSemicolon"

Str(a, b, c, d, e, f) == SelectSeq(<<a, b, c, d, e, f>>, LAMBDA x : x # "")

\* The keyword table: the spelling of each of the 14 keywords and its token kind.
keywordTokenTypes ==
    {<<Str("t", "r", "u", "e", "", ""), "TokenTrue">>,
     <<Str("f", "a", "l", "s", "e", ""), "TokenFalse">>,
     <<Str("n", "i", "l", "", "", ""), "TokenNil">>,
     <<Str("a", "n", "d", "", "", ""), "TokenAnd">>,
     <<Str("o", "r", "", "", "", ""), "TokenOr">>,
     <<Str("i", "f", "", "", "", ""), "TokenIf">>,
     <<Str("e", "l", "s", "e", "", ""), "TokenElse">>,
     <<Str("f", "o", "r", "", "", ""), "TokenFor">>,
     <<Str("w", "h", "i", "l", "e", ""), "TokenWhile">>,
     <<Str("f", "u", "n", "c", "", ""), "TokenFunc">>,
     <<Str("r", "e", "t", "u", "r", "n"), "TokenReturn">>,
     <<Str("c", "l", "a", "s", "s", ""), "TokenClass">>,
     <<Str("s", "u", "p", "e", "r", ""), "TokenSuper">>,
     <<Str("t", "h", "i", "s", "", ""), "TokenThis">>}

Keywords == {k[1] : k \in keywordTokenTypes}

KeywordIDs == {k[2] : k \in keywordTokenTypes}

KeywordType(text) == (CHOOSE k \in keywordTokenTypes : k[1] = text)[2]

isRuneStartOfIdentifier(c) == c = "_" \/ IsLetter(c)

isIdentifierRune(c) == isRuneStartOfIdentifier(c) \/ IsDigit(c)

(***************************************************************************)
(* Tokens and errors                                                       *)
(***************************************************************************)

\* The zero value of NumberToken.value.
NoNum == [int |-> 0, frac |-> <<>>]

\* Token, and the three variants that embed it.  value is the string payload
\* (StringToken, IdentifierToken), num the numeric payload (NumberToken).
Token(id, l, c) ==
    [type |-> "Token", id |-> id, line |-> l, column |-> c, value |-> <<>>, num |-> NoNum]

StringToken(l, c, v) ==
    [type |-> "StringToken", id |-> "TokenString", line |-> l, column |-> c,
     value |-> v, num |-> NoNum]

NumberToken(l, c, n) ==
    [type |-> "NumberToken", id |-> "TokenNumber", line |-> l, column |-> c,
     value |-> <<>>, num |-> n]

IdentifierToken(id, l, c, v) ==
    [type |-> "IdentifierToken", id |-> id, line |-> l, column |-> c,
     value |-> v, num |-> NoNum]

NoError == [kind |-> "nil", rune |-> NUL, line |-> 0, column |-> 0]

UnexpectedCharacterError(c, l, col) ==
    [kind |-> "UnexpectedCharacter", rune |-> c, line |-> l, column |-> col]

UnterminatedStringError(d, l, col) ==
    [kind |-> "UnterminatedString", rune |-> d, line |-> l, column |-> col]

\* The error strconv.ParseFloat returns for a text that is no number.
SyntaxError == [kind |-> "ParseFloat", rune |-> NUL, line |-> 0, column |-> 0]

(***************************************************************************)
(* bufio.Reader over the source text.  The scanner's state t is the record *)
(* [r, lastRuneSize, line, column].                                        *)
(***************************************************************************)

\* ReadRune: the next code point, or (0, EOF).  A failed read leaves nothing
\* to unread.
ReadRune(t) ==
    IF t.r < Len(input)
    THEN [rune |-> input[t.r + 1], err |-> "nil",
          t |-> [t EXCEPT !.r = @ + 1, !.lastRuneSize = 1]]
    ELSE [rune |-> NUL, err |-> "EOF", t |-> [t EXCEPT !.lastRuneSize = -1]]

\* UnreadRune: steps back over the last rune read; an error (ignored by every
\* caller that reaches it) and no effect when the last call was no successful
\* ReadRune.
UnreadRune(t) ==
    IF t.lastRuneSize < 0 \/ t.r < t.lastRuneSize
    THEN t
    ELSE [t EXCEPT !.r = @ - t.lastRuneSize, !.lastRuneSize = -1]

(***************************************************************************)
(* strconv.ParseFloat on the texts number() builds: digits with at most    *)
(* one '.'.  The value is the decimal number the text denotes: its integer *)
(* part and its fraction digits without trailing zeros.                    *)
(***************************************************************************)

DigitValue(c) ==
    CASE c = "0" -> 0 [] c = "1" -> 1 [] c = "2" -> 2 [] c = "3" -> 3 [] c = "4" -> 4
      [] c = "5" -> 5 [] c = "6" -> 6 [] c = "7" -> 7 [] c = "8" -> 8 [] c = "9" -> 9

RECURSIVE IntValue(_)
IntValue(ds) ==
    IF ds = <<>> THEN 0
    ELSE 10 * IntValue(SubSeq(ds, 1, Len(ds) - 1)) + DigitValue(ds[Len(ds)])

RECURSIVE StripZeros(_)
StripZeros(ds) ==
    IF ds # <<>> /\ ds[Len(ds)] = "0" THEN StripZeros(SubSeq(ds, 1, Len(ds) - 1)) ELSE ds

DotAt(text) ==
    IF \E i \in 1..Len(text) : text[i] = "."
    THEN CHOOSE i \in 1..Len(text) : text[i] = "." /\ \A j \in 1..(i - 1) : text[j] # "."
    ELSE Len(text) + 1

ParseFloat(text) ==
    LET d == DotAt(text)
        ip == SubSeq(text, 1, d - 1)
        fp == SubSeq(text, d + 1, Len(text))
    IN IF \A i \in 1..Len(text) : text[i] = "."
       THEN [value |-> NoNum, err |-> SyntaxError]
       ELSE [value |-> [int |-> IntValue(ip), frac |-> StripZeros(fp)], err |-> NoError]

(***************************************************************************)
(* The scanning functions                                                  *)
(***************************************************************************)

\* Tokenizer.token: a plain token at the scanner's line and column.
token(t, id) == Token(id, t.line, t.column)

\* consumeIfNext keeping the code point it read when it is not the expected
\* one.
consumeIfNext_noUnread(t, expected) ==
    LET rd == ReadRune(t)
    IN IF rd.err # "nil" \/ rd.rune # expected
       THEN [ok |-> FALSE, t |-> rd.t]
       ELSE [ok |-> TRUE, t |-> rd.t]

\* Tokenizer.consumeIfNext.
consumeIfNext(t, expected) ==
    LET rd == ReadRune(t)
    IN IF rd.err # "nil" \/ rd.rune # expected
       THEN [ok |-> FALSE, t |-> UnreadRune(rd.t)]
       ELSE [ok |-> TRUE, t |-> rd.t]

\* consumeUntilEOL reading past the newline instead of pushing it back.
RECURSIVE consumeUntilEOL_eatsNewline(_)
consumeUntilEOL_eatsNewline(t) ==
    LET rd == ReadRune(t)
    IN IF rd.err # "nil" \/ rd.rune = "\n"
       THEN rd.t
       ELSE consumeUntilEOL_eatsNewline(rd.t)

\* Tokenizer.consumeUntilEOL.
RECURSIVE consumeUntilEOL(_)
consumeUntilEOL(t) ==
    LET rd == ReadRune(t)
    IN IF rd.err # "nil" \/ rd.rune = "\n"
       THEN UnreadRune(rd.t)
       ELSE consumeUntilEOL(rd.t)

\* escape writing an unrecognised escaped rune as it stands.
escape_keepsUnknown(c, delimiter, sb) ==
    CASE c = "n" -> Append(sb, "\n")
      [] c = "r" -> Append(sb, "\r")
      [] c = "t" -> Append(sb, "\t")
      [] c = "b" -> Append(sb, BS)
      [] c = "f" -> Append(sb, "\f")
      [] OTHER -> Append(sb, c)

\* The switch of Tokenizer.string on an escaped rune: what it writes.
escape(c, delimiter, sb) ==
    CASE c = "\\" \/ c = delimiter -> Append(sb, c)
      [] c = "n" /\ c # delimiter -> Append(sb, "\n")
      [] c = "r" /\ c # delimiter -> Append(sb, "\r")
      [] c = "t" /\ c # delimiter -> Append(sb, "\t")
      [] c = "b" /\ c # delimiter -> Append(sb, BS)
      [] c = "f" /\ c # delimiter -> Append(sb, "\f")
      [] OTHER -> sb

\* The loop of Tokenizer.string.
RECURSIVE stringLoop(_, _, _, _, _)
stringLoop(t, delimiter, tok, isEscaping, sb) ==
    LET rd == ReadRune(t)
        t1 == [rd.t EXCEPT !.column = @ + 1]
    IN IF rd.err = "EOF"
       THEN [token |-> tok,
             err |-> UnterminatedStringError(delimiter, tok.line, tok.column),
             t |-> t1]
       ELSE IF isEscaping
       THEN stringLoop(t1, delimiter, tok, FALSE, escape(rd.rune, delimiter, sb))
       ELSE IF rd.rune = "\\"
       THEN stringLoop(t1, delimiter, tok, TRUE, sb)
       ELSE IF rd.rune = delimiter
       THEN [token |-> [tok EXCEPT !.value = sb], err |-> NoError, t |-> t1]
       ELSE stringLoop(t1, delimiter, tok, FALSE, Append(sb, rd.rune))

\* Tokenizer.string.
string(t, delimiter) ==
    stringLoop(t, delimiter, StringToken(t.line, t.column, <<>>), FALSE, <<>>)

\* numberLoop ending at a second '.' without pushing it back.
RECURSIVE numberLoop_eatsSecondDot(_, _, _)
numberLoop_eatsSecondDot(t, isFractional, sb) ==
    LET rd == ReadRune(t)
    IN IF rd.rune = "."
       THEN IF isFractional
            THEN [t |-> rd.t, sb |-> sb]
            ELSE numberLoop_eatsSecondDot(rd.t, TRUE, Append(sb, rd.rune))
       ELSE IF rd.err # "nil" \/ ~IsDigit(rd.rune)
       THEN [t |-> UnreadRune(rd.t), sb |-> sb]
       ELSE numberLoop_eatsSecondDot([rd.t EXCEPT !.column = @ + 1], isFractional,
                                     Append(sb, rd.rune))

\* The loop of Tokenizer.number.
RECURSIVE numberLoop(_, _, _)
numberLoop(t, isFractional, sb) ==
    LET rd == ReadRune(t)
    IN IF rd.rune = "."
       THEN IF isFractional
            THEN [t |-> UnreadRune(rd.t), sb |-> sb]
            ELSE numberLoop(rd.t, TRUE, Append(sb, rd.rune))
       ELSE IF rd.err # "nil" \/ ~IsDigit(rd.rune)
       THEN [t |-> UnreadRune(rd.t), sb |-> sb]
       ELSE numberLoop([rd.t EXCEPT !.column = @ + 1], isFractional, Append(sb, rd.rune))

\* Tokenizer.number.
number(t) ==
    LET tok == NumberToken(t.line, t.column, NoNum)
        res == numberLoop(UnreadRune(t), FALSE, <<>>)
        pf == ParseFloat(res.sb)
    IN IF pf.err # NoError
       THEN [token |-> tok, err |-> pf.err, t |-> res.t]
       ELSE [token |-> [tok EXCEPT !.num = pf.value], err |-> NoError, t |-> res.t]

\* The loop of Tokenizer.identifier.
RECURSIVE identifierLoop(_, _)
identifierLoop(t, sb) ==
    LET rd == ReadRune(t)
    IN IF rd.err = "EOF"
       THEN [t |-> rd.t, sb |-> sb]
       ELSE IF ~isIdentifierRune(rd.rune)
       THEN [t |-> UnreadRune(rd.t), sb |-> sb]
       ELSE identifierLoop([rd.t EXCEPT !.column = @ + 1], Append(sb, rd.rune))

\* keywordOrIdentifier taking a run that begins with a keyword for the keyword.
keywordOrIdentifier_prefix(tok, value) ==
    IF \E k \in Keywords : Len(k) <= Len(value) /\ SubSeq(value, 1, Len(k)) = k
    THEN [tok EXCEPT !.id = KeywordType(CHOOSE k \in Keywords :
                                Len(k) <= Len(value) /\ SubSeq(value, 1, Len(k)) = k)]
    ELSE [tok EXCEPT !.value = value]

\* The keyword lookup that ends Tokenizer.identifier.
keywordOrIdentifier(tok, value) ==
    IF value \in Keywords
    THEN [tok EXCEPT !.id = KeywordType(value)]
    ELSE [tok EXCEPT !.value = value]

\* Tokenizer.identifier.
identifier(t) ==
    LET tok == IdentifierToken("TokenIdentifier", t.line, t.column, <<>>)
        t1 == [UnreadRune(t) EXCEPT !.column = @ - 1]
        res == identifierLoop(t1, <<>>)
    IN [token |-> keywordOrIdentifier(tok, res.sb), err |-> NoError, t |-> res.t]

\* space with the line counter left alone on a newline.
space_keepsLine(t, c) ==
    IF c = "\n" THEN [t EXCEPT !.column = 0] ELSE t

\* The whitespace branch of Tokenize: a newline starts a new line.
space(t, c) ==
    IF c = "\n" THEN [t EXCEPT !.column = 0, !.line = @ + 1] ELSE t

\* The one- and two-character operators resolved by lookahead.
Compare == {"!", "=", ">", "<"}

compareTokenType(c, two) ==
    CASE c = "!" -> IF two THEN "TokenBangEqual" ELSE "TokenBang"
      [] c = "=" -> IF two THEN "TokenEqualEqual" ELSE "TokenEqual"
      [] c = ">" -> IF two THEN "TokenGreaterEqual" ELSE "TokenGreater"
      [] c = "<" -> IF two THEN "TokenLessEqual" ELSE "TokenLess"

(***************************************************************************)
(* The source texts checked: every text up to a length over each of a few  *)
(* small alphabets, and every keyword with up to one code point before and *)
(* after it.                                                               *)
(***************************************************************************)

StringsOver(A, n) == UNION {[1..k -> A] : k \in 0..n}

NumberAlphabet == {"1", "2", "3", "."}

PositionAlphabet == {"1", "+", " ", "\n", "=", "!", "a", "'"}

StringAlphabet == {"'", "\"", "\\", "n", "x", "\n"}

EscapeAlphabet == {"'", "\\", "r", "t", "b", "f"}

IdentifierAlphabet == {"i", "f", "y", "_", "1", " "}

CommentAlphabet == {"/", "\n", "a", "+", "#", "."}

CompareAlphabet == {"!", "=", ">", "<", "2", " "}

CompareExamples == {<<"=", "=", "=">>, <<">", "=", "2", ">", "1">>}

Pads == {<<>>, <<"_">>, <<"1">>, <<" ">>, <<"s">>}

KeywordInputs == {pre \o k \o post : pre \in Pads, k \in Keywords, post \in Pads}

Inputs ==
    StringsOver(NumberAlphabet, MaxLen)
        \cup StringsOver(PositionAlphabet, MaxShort)
        \cup StringsOver(StringAlphabet, MaxShort)
        \cup StringsOver(EscapeAlphabet, MaxShort)
        \cup StringsOver(IdentifierAlphabet, MaxShort)
        \cup StringsOver(CommentAlphabet, MaxShort)
        \cup StringsOver(CompareAlphabet, MaxShort)
        \cup CompareExamples
        \cup KeywordInputs

(***************************************************************************)
(* Tokenizer.Tokenize: one action per iteration of its loop                *)
(***************************************************************************)

\* NewTokenizer, and the state Tokenize starts from.
Init ==
    /\ input \in Inputs
    /\ r = 0
    /\ lastRuneSize = -1
    /\ line = 1
    /\ column = 0
    /\ tokens = <<>>
    /\ err = NoError
    /\ done = FALSE
    /\ starts = <<>>
    /\ ends = <<>>
    /\ errAt = 0
    /\ ptokens = <<>>
    /\ curTokenIdx = 0
    /\ statements = <<>>
    /\ perr = [kind |-> "nil"]
    /\ pdone = FALSE

\* The scanner's state.
T == [r |-> r, lastRuneSize |-> lastRuneSize, line |-> line, column |-> column]

\* The read that starts an iteration.
Rd == ReadRune(T)

\* The rune read.
Cur == Rd.rune

\* The scanner's state after the read and t.column++.
T0 == [Rd.t EXCEPT !.column = @ + 1]

\* The scanner's state becomes t.
Scan(t) ==
    /\ r' = t.r
    /\ lastRuneSize' = t.lastRuneSize
    /\ line' = t.line
    /\ column' = t.column

\* tokens = append(tokens, tok); the loop goes on.
Emit(t, tok) ==
    /\ Scan(t)
    /\ tokens' = Append(tokens, tok)
    /\ starts' = Append(starts, r + 1)
    /\ ends' = Append(ends, t.r)
    /\ UNCHANGED <<input, err, done, errAt, parseVars>>

\* continue: nothing is appended.
Skip(t) ==
    /\ Scan(t)
    /\ UNCHANGED <<input, tokens, err, done, starts, ends, errAt, parseVars>>

\* return tokens, e.
Fail(t, e) ==
    /\ Scan(t)
    /\ err' = e
    /\ done' = TRUE
    /\ errAt' = r + 1
    /\ UNCHANGED <<input, tokens, starts, ends, parseVars>>

\* ReadRune returns io.EOF: break, return tokens, nil.
ReadEOF ==
    /\ ~done
    /\ Rd.err = "EOF"
    /\ Scan(Rd.t)
    /\ done' = TRUE
    /\ UNCHANGED <<input, tokens, err, starts, ends, errAt, parseVars>>

\* A rune of singleRuneTokenType.
ScanSingleRune ==
    /\ ~done
    /\ Rd.err = "nil"
    /\ Cur \in SingleRunes
    /\ Emit(T0, token(T0, singleRuneTokenType(Cur)))

\* unicode.IsSpace(r).
ScanSpace ==
    /\ ~done
    /\ Rd.err = "nil"
    /\ IsSpace(Cur)
    /\ Skip(space(T0, Cur))

\* case '.': a number if number() succeeds, else a dot.
ScanDot ==
    /\ ~done
    /\ Rd.err = "nil"
    /\ Cur = "."
    /\ LET n == number(T0)
       IN IF n.err = NoError
          THEN Emit(n.t, n.token)
          ELSE Emit(n.t, token(n.t, "TokenDot"))

\* case '/': a line comment or a slash.
ScanSlash ==
    /\ ~done
    /\ Rd.err = "nil"
    /\ Cur = "/"
    /\ LET c == consumeIfNext(T0, "/")
       IN IF c.ok
          THEN Skip(consumeUntilEOL(c.t))
          ELSE Emit(c.t, token(c.t, "TokenSlash"))

\* case '!', '=', '>', '<'.
ScanCompare ==
    /\ ~done
    /\ Rd.err = "nil"
    /\ Cur \in Compare
    /\ LET c == consumeIfNext(T0, "=")
       IN Emit(c.t, token(c.t, compareTokenType(Cur, c.ok)))

\* case '"', '\''.
ScanString ==
    /\ ~done
    /\ Rd.err = "nil"
    /\ Cur \in {"\"", "'"}
    /\ LET s == string(T0, Cur)
       IN IF s.err # NoError
          THEN Fail(s.t, s.err)
          ELSE Emit(s.t, s.token)

\* default: unicode.IsDigit(r).
ScanNumber ==
    /\ ~done
    /\ Rd.err = "nil"
    /\ IsDigit(Cur)
    /\ LET n == number(T0)
       IN IF n.err # NoError
          THEN Fail(n.t, n.err)
          ELSE Emit(n.t, n.token)

\* default: isRuneStartOfIdentifier(r).
ScanIdentifier ==
    /\ ~done
    /\ Rd.err = "nil"
    /\ isRuneStartOfIdentifier(Cur)
    /\ LET i == identifier(T0)
       IN Emit(i.t, i.token)

\* ScanUnexpected skipping the rune and scanning on.
ScanUnexpected_skips ==
    /\ ~done
    /\ Rd.err = "nil"
    /\ Cur \notin SingleRunes
    /\ ~IsSpace(Cur)
    /\ Cur \notin {".", "/", "\"", "'"} \cup Compare
    /\ ~IsDigit(Cur)
    /\ ~isRuneStartOfIdentifier(Cur)
    /\ Skip(T0)

\* default: any other rune.
ScanUnexpected ==
    /\ ~done
    /\ Rd.err = "nil"
    /\ Cur \notin SingleRunes
    /\ ~IsSpace(Cur)
    /\ Cur \notin {".", "/", "\"", "'"} \cup Compare
    /\ ~IsDigit(Cur)
    /\ ~isRuneStartOfIdentifier(Cur)
    /\ Fail(T0, UnexpectedCharacterError(Cur, T0.line, T0.column))

Next ==
    \/ ReadEOF
    \/ ScanSingleRune
    \/ ScanSpace
    \/ ScanDot
    \/ ScanSlash
    \/ ScanCompare
    \/ ScanString
    \/ ScanNumber
    \/ ScanIdentifier
    \/ ScanUnexpected

Spec == Init /\ [][Next]_vars

(***************************************************************************)
(* Positions in the source text                                            *)
(***************************************************************************)

\* The offset of the last newline before offset at, 0 when there is none.
LineStart(at) ==
    LET nl == {k \in 1..(at - 1) : input[k] = "\n"}
    IN IF nl = {} THEN 0 ELSE CHOOSE k \in nl : \A j \in nl : j <= k

\* The 1-based line of the code point at offset at.
LineOf(at) == 1 + Cardinality({k \in 1..(at - 1) : input[k] = "\n"})

\* The 1-based column of the code point at offset at, in its physical line.
ColumnOf(at) == at - LineStart(at)

TokenIndexes == 1..Len(tokens)

(***************************************************************************)
(* The lexer's claims                                                      *)
(***************************************************************************)

\* C1: every token's column is the 1-based position of its first code point
\* in its physical line, whatever tokens precede it on that line.
C1_ColumnIsPosition ==
    \A i \in TokenIndexes : tokens[i].column = ColumnOf(starts[i])

\* C2: every token's line is 1 plus the number of newlines before its first
\* code point, newlines inside an earlier string literal included, and the
\* column counter is 0 after each newline consumed.
C2_LineCountsNewlines ==
    /\ \A i \in TokenIndexes : tokens[i].line = LineOf(starts[i])
    /\ (~done /\ r > 0 /\ input[r] = "\n") => column = 0

\* C3: in the token sequence, with or without an error, positions never go
\* backwards: for i < j, (line_i, column_i) <= (line_j, column_j)
\* lexicographically.
C3_PositionsMonotonic ==
    \A i, j \in TokenIndexes :
        i < j =>
            \/ tokens[i].line < tokens[j].line
            \/ /\ tokens[i].line = tokens[j].line
               /\ tokens[i].column <= tokens[j].column

\* C3's case: two tokens of one line, then a token of a later line at a
\* smaller column.
C3_Witness ==
    /\ done
    /\ \E i \in TokenIndexes :
        /\ i + 2 \in TokenIndexes
        /\ tokens[i].line = tokens[i + 1].line
        /\ tokens[i + 1].line < tokens[i + 2].line
        /\ tokens[i + 2].column < tokens[i + 1].column

Dots == {k \in 1..Len(input) : input[k] = "."}

FirstDot == CHOOSE k \in Dots : \A j \in Dots : k <= j

SecondDot == CHOOSE k \in Dots : \A j \in Dots : j <= k

\* The source text is digits '.' digits '.' and then digits or nothing.
TwoDotNumber ==
    /\ Cardinality(Dots) = 2
    /\ \A k \in 1..Len(input) : input[k] = "." \/ input[k] \in Digits
    /\ 1 < FirstDot
    /\ FirstDot + 1 < SecondDot

\* The number denoted by an integer part and fraction digits.
Decimal(ip, fp) == [int |-> IntValue(ip), frac |-> StripZeros(fp)]

\* C4 as claimed: digits '.' digits '.' digits yields number, dot, number:
\* the second '.' is a dot token and the digits after it a number of their own.
C4_SecondDotIsDotToken ==
    (done /\ TwoDotNumber /\ SecondDot < Len(input)) =>
        /\ Len(tokens) = 3
        /\ tokens[1].id = "TokenNumber"
        /\ tokens[2].id = "TokenDot"
        /\ tokens[3].id = "TokenNumber"
        /\ tokens[3].num = Decimal(SubSeq(input, SecondDot + 1, Len(input)), <<>>)

\* C4, amended: the literal ends before the second '.'; the next scan starts
\* at that '.', and yields a number holding the '.' and the digits after it
\* when digits follow (1.2.3 is number(1.2), number(0.3)), a dot token
\* otherwise.
C4_SecondDotStartsNumber ==
    (done /\ TwoDotNumber) =>
        /\ err = NoError
        /\ Len(tokens) = 2
        /\ tokens[1].id = "TokenNumber"
        /\ tokens[1].num = Decimal(SubSeq(input, 1, FirstDot - 1),
                                   SubSeq(input, FirstDot + 1, SecondDot - 1))
        /\ ends[1] = SecondDot - 1
        /\ starts[2] = SecondDot
        /\ IF SecondDot < Len(input)
           THEN /\ tokens[2].id = "TokenNumber"
                /\ tokens[2].num = Decimal(<<>>, SubSeq(input, SecondDot + 1, Len(input)))
           ELSE tokens[2].id = "TokenDot"

\* C4's case: 1.2.3 has been scanned.
C4_Witness ==
    /\ done
    /\ input = <<"1", ".", "2", ".", "3">>
    /\ Len(tokens) = 2
    /\ tokens[2].num = [int |-> 0, frac |-> <<"3">>]

\* The code point at offset k of the string opened at offset s is escaped: a
\* backslash that is not itself escaped comes right before it.
RECURSIVE Escaped(_, _)
Escaped(s, k) == k > s + 1 /\ input[k - 1] = "\\" /\ ~Escaped(s, k - 1)

\* The offset of the first unescaped occurrence, after the quote at offset s,
\* of the same quote; 0 when there is none.
Closing(s) ==
    LET cl == {k \in (s + 1)..Len(input) : input[k] = input[s] /\ ~Escaped(s, k)}
    IN IF cl = {} THEN 0 ELSE CHOOSE k \in cl : \A j \in cl : k <= j

\* What the code point at offset k contributes to the value of the string
\* opened at offset s.
Piece(s, k) ==
    LET c == input[k]
    IN IF Escaped(s, k)
       THEN CASE c = "\\" \/ c = input[s] -> <<c>>
              [] c = "n" -> <<"\n">>
              [] c = "r" -> <<"\r">>
              [] c = "t" -> <<"\t">>
              [] c = "b" -> <<BS>>
              [] c = "f" -> <<"\f">>
              [] OTHER -> <<>>
       ELSE IF c = "\\" THEN <<>> ELSE <<c>>

RECURSIVE Pieces(_, _, _)
Pieces(s, from, to) ==
    IF from > to THEN <<>> ELSE Piece(s, from) \o Pieces(s, from + 1, to)

\* C5: a string token's value is the code points between the opening quote
\* and the first later unescaped occurrence of the same quote, escapes
\* decoded; an unknown escape contributes nothing and the other quote stands
\* for itself.
C5_StringValue ==
    \A i \in TokenIndexes :
        tokens[i].id = "TokenString" =>
            LET s == starts[i]
            IN /\ input[s] \in {"\"", "'"}
               /\ Closing(s) # 0
               /\ ends[i] = Closing(s)
               /\ tokens[i].value = Pieces(s, s + 1, Closing(s) - 1)

\* C5's case: a string whose value is its own delimiter, escaped.
C5_Witness ==
    /\ done
    /\ \E i \in TokenIndexes :
        /\ tokens[i].id = "TokenString"
        /\ tokens[i].value = <<input[starts[i]]>>

\* C6: an unterminated-string error carries the delimiter, line and column
\* of the opening quote, and comes with exactly the tokens before the string.
C6_UnterminatedAtOpeningQuote ==
    err.kind = "UnterminatedString" =>
        /\ done
        /\ Closing(errAt) = 0
        /\ err.rune = input[errAt]
        /\ err.line = LineOf(errAt)
        /\ err.column = ColumnOf(errAt)
        /\ Len(tokens) = Len(starts)
        /\ \A i \in TokenIndexes : ends[i] < errAt

\* A code point no rule of the lexer accepts.
Unexpected(c) ==
    /\ ~IsSpace(c)
    /\ c \notin {"(", ")", "{", "}", ",", ".", ";"}
    /\ c \notin {"-", "+", "*", "/", "!", "=", ">", "<"}
    /\ c \notin {"\"", "'"}
    /\ c \notin Digits
    /\ c \notin Letters
    /\ c # "_"

\* C7: at a code point no rule accepts, Tokenize returns at once an
\* unexpected-character error with that code point and the scanner's line
\* and column, and the tokens emitted before it; nothing after it is scanned.
C7_UnexpectedCharacterStops ==
    /\ [](err.kind = "UnexpectedCharacter" =>
            /\ done
            /\ Unexpected(input[errAt])
            /\ err.rune = input[errAt]
            /\ err.line = line
            /\ err.column = column
            /\ r = errAt
            /\ \A i \in TokenIndexes : ends[i] < errAt)
    /\ [][(~done /\ r < Len(input) /\ Unexpected(input[r + 1])) =>
            /\ done'
            /\ err' = UnexpectedCharacterError(input[r + 1], line, column + 1)
            /\ errAt' = r + 1
            /\ tokens' = tokens]_vars

\* C7's case: the error, with a token before the code point and text after it.
C7_Witness ==
    /\ done
    /\ err.kind = "UnexpectedCharacter"
    /\ Len(tokens) >= 1
    /\ errAt < Len(input)

\* The offset of the last code point of the run of identifier code points
\* that starts at offset s.
RunEnd(s) ==
    CHOOSE e \in s..Len(input) :
        /\ \A k \in s..e : isIdentifierRune(input[k])
        /\ e < Len(input) => ~isIdentifierRune(input[e + 1])

\* C8: an identifier or keyword token covers the maximal run of letters,
\* digits and '_' from its first code point; it is a keyword token without
\* payload iff the whole run is a keyword, else an identifier with the run
\* as payload.
C8_KeywordOrIdentifier ==
    \A i \in TokenIndexes :
        tokens[i].id \in KeywordIDs \cup {"TokenIdentifier"} =>
            LET s == starts[i]
                run == SubSeq(input, s, RunEnd(s))
            IN /\ isRuneStartOfIdentifier(input[s])
               /\ ends[i] = RunEnd(s)
               /\ IF run \in Keywords
                  THEN /\ tokens[i].id = KeywordType(run)
                       /\ tokens[i].value = <<>>
                  ELSE /\ tokens[i].id = "TokenIdentifier"
                       /\ tokens[i].value = run

\* C8's case: the run iffy, which starts with a keyword, is one identifier.
C8_Witness ==
    /\ done
    /\ \E i \in TokenIndexes :
        /\ tokens[i].id = "TokenIdentifier"
        /\ tokens[i].value = <<"i", "f", "f", "y">>

\* The offset of the first newline at or after offset k, or the end of input.
EOL(k) ==
    LET nl == {j \in k..Len(input) : input[j] = "\n"}
    IN IF nl = {} THEN Len(input) + 1 ELSE CHOOSE j \in nl : \A i \in nl : j <= i

\* C9: "//" emits nothing and discards the text up to, not including, the
\* next newline or the end of input; a '/' alone emits one slash token; the
\* newline is then scanned as any newline, so the line counter increments.
C9_LineComment ==
    [][/\ (~done /\ r < Len(input) /\ input[r + 1] = "/") =>
            IF r + 2 <= Len(input) /\ input[r + 2] = "/"
            THEN /\ tokens' = tokens
                 /\ r' = EOL(r + 1) - 1
                 /\ line' = line
                 /\ err' = err
                 /\ ~done'
            ELSE /\ tokens' = Append(tokens, Token("TokenSlash", line, column + 1))
                 /\ r' = r + 1
       /\ (~done /\ r < Len(input) /\ input[r + 1] = "\n") =>
            /\ line' = line + 1
            /\ r' = r + 1
            /\ tokens' = tokens]_vars

\* C9's case: a comment, its newline, and a token on the next line.
C9_Witness ==
    /\ done
    /\ Len(input) >= 4
    /\ input[1] = "/"
    /\ input[2] = "/"
    /\ Len(tokens) = 1
    /\ tokens[1].line = 2

(***************************************************************************)
(* The parser.  Every grammar rule is an operator from the cursor it       *)
(* starts at to the record [node, cur, err]: the node built, the cursor it *)
(* leaves and the error it returns.  The loops of the rules are recursive  *)
(* operators, one call per iteration.                                      *)
(***************************************************************************)

\* A nil TokenHolder.
NilToken ==
    [type |-> "nil", id |-> "nil", line |-> 0, column |-> 0, value |-> <<>>, num |-> NoNum]

\* The zero value of tokenize.Token and of tokenize.IdentifierToken.
ZeroToken == Token("TokenEOF", 0, 0)

ZeroIdentifierToken == IdentifierToken("TokenEOF", 0, 0, <<>>)

\* TokenHolder.GetToken: the embedded Token, without the payload.
GetToken(tk) == Token(tk.id, tk.line, tk.column)

\* A nil Node, and a nil error.
Nil == [kind |-> "nil"]

NoParseError == [kind |-> "nil"]

UnexpectedTokenError(tk) == [kind |-> "UnexpectedToken", token |-> tk]

ExpectedTokenError(expected, actual, lastToken) ==
    [kind |-> "ExpectedToken", expected |-> expected, actual |-> actual, last |-> lastToken]

ExpectedStatementError(lastToken) == [kind |-> "ExpectedStatement", last |-> lastToken]

ExpectedExpressionError(lastToken) == [kind |-> "ExpectedExpression", last |-> lastToken]

InvalidAssignmentTargetError(target) == [kind |-> "InvalidAssignmentTarget", target |-> target]

NoValueError(lastToken) == [kind |-> "NoValue", last |-> lastToken]

InvalidFuncParamError(actual) == [kind |-> "InvalidFuncParam", actual |-> actual]

\* The node variants.
LiteralNode(value) == [kind |-> "Literal", Value |-> value]

UnaryExprNode(operator, operand) ==
    [kind |-> "Unary", Operator |-> operator, Operand |-> operand]

BinaryExprNode(lhs, operator, rhs) ==
    [kind |-> "Binary", LHS |-> lhs, Operator |-> operator, RHS |-> rhs]

AssignmentNode(lhs, equal, rhs) ==
    [kind |-> "Assignment", LHS |-> lhs, Equal |-> equal, RHS |-> rhs]

CallNode(function, leftParen, args, rightParen) ==
    [kind |-> "Call", Function |-> function, LeftParen |-> leftParen, Args |-> args,
     RightParen |-> rightParen]

LookupNode(value, key) == [kind |-> "Lookup", Value |-> value, Key |-> key]

FuncNode(funcToken, leftParen, params, rightParen, body) ==
    [kind |-> "Func", Func |-> funcToken, LeftParen |-> leftParen, Params |-> params,
     RightParen |-> rightParen, Body |-> body]

BlockNode(bodyStart, children, bodyEnd) ==
    [kind |-> "Block", BodyStart |-> bodyStart, Children |-> children, BodyEnd |-> bodyEnd]

ConditionalNode(ifToken, condition, trueBody, elseToken, falseBody) ==
    [kind |-> "Conditional", If |-> ifToken, Condition |-> condition, TrueBody |-> trueBody,
     Else |-> elseToken, FalseBody |-> falseBody]

WhileNode(whileToken, condition, body) ==
    [kind |-> "While", While |-> whileToken, Condition |-> condition, Body |-> body]

ForNode(forToken, init, condition, update, body) ==
    [kind |-> "For", For |-> forToken, Init |-> init, Condition |-> condition,
     Update |-> update, Body |-> body]

ReturnNode(returnToken, value) ==
    [kind |-> "Return", Return |-> returnToken, Value |-> value]

ClassNode(classToken, extends, parentClass, bodyStart, body, bodyEnd) ==
    [kind |-> "Class", Class |-> classToken, Extends |-> extends, ParentClass |-> parentClass,
     BodyStart |-> bodyStart, Body |-> body, BodyEnd |-> bodyEnd]

\* What a rule returns.
Res(node, cur, e) == [node |-> node, cur |-> cur, err |-> e]

\* v, err := ...; then the rest of the function, F, with what was returned.
Then(v, F(_)) == F(v)

\* Parser.tokenAtOffset, peek, last, consume.
tokenAtOffset(cur, offset) ==
    IF cur + offset >= Len(ptokens) \/ cur + offset < 0
    THEN NilToken
    ELSE ptokens[cur + offset + 1]

peek(cur) == tokenAtOffset(cur, 0)

last(cur) == tokenAtOffset(cur, -1)

consume(cur) ==
    Then(peek(cur), LAMBDA tk :
        [token |-> tk, cur |-> IF tk # NilToken THEN cur + 1 ELSE cur])

\* maybeMatch consuming the token at the cursor whatever its kind.
maybeMatch_anyKind(cur, id) == consume(cur)

\* Parser.maybeMatch.
maybeMatch(cur, id) ==
    Then(peek(cur), LAMBDA tk :
        IF tk = NilToken \/ tk.id # id
        THEN [token |-> NilToken, cur |-> cur]
        ELSE consume(cur))

\* Parser.match.
match(cur, id) ==
    Then(maybeMatch(cur, id), LAMBDA m :
        IF m.token = NilToken
        THEN [token |-> NilToken, cur |-> m.cur,
              err |-> ExpectedTokenError(id, NilToken, last(m.cur))]
        ELSE [token |-> m.token, cur |-> m.cur, err |-> NoParseError])

\* Parser.matchIdentifier.
matchIdentifier(cur, id) ==
    Then(match(cur, id), LAMBDA m :
        IF m.err # NoParseError
        THEN [token |-> ZeroIdentifierToken, cur |-> m.cur, err |-> m.err]
        ELSE IF m.token.type = "IdentifierToken"
        THEN [token |-> m.token, cur |-> m.cur, err |-> NoParseError]
        ELSE [token |-> ZeroIdentifierToken, cur |-> m.cur,
              err |-> ExpectedTokenError(id, m.token, last(m.cur))])

atomicTokenIDs ==
    {"TokenIdentifier", "TokenNumber", "TokenString", "TokenTrue", "TokenFalse", "TokenNil"}

unaryOperatorTokenIDs == {"TokenBang", "TokenMinus"}

factorOperatorTokenIDs == {"TokenStar", "TokenSlash"}

termOperatorTokenIDs == {"TokenPlus", "TokenMinus"}

comparisonOperatorTokenIDs ==
    {"TokenGreater", "TokenGreaterEqual", "TokenLess", "TokenLessEqual"}

equalityOperatorTokenIDs == {"TokenEqualEqual", "TokenBangEqual"}

conjunctionOperatorTokenIDs == {"TokenAnd"}

disjunctionOperatorTokenIDs == {"TokenOr"}

\* Parser.atom.
atom(cur) ==
    Then(peek(cur), LAMBDA tk :
        IF tk # NilToken /\ tk.id \in atomicTokenIDs
        THEN Res(LiteralNode(tk), cur + 1, NoParseError)
        ELSE IF tk # NilToken
        THEN Res(LiteralNode(NilToken), cur, UnexpectedTokenError(tk))
        ELSE Res(LiteralNode(NilToken), cur, NoValueError(last(cur))))

RECURSIVE Rule(_, _)
RECURSIVE callLoop(_, _), expressionListLoop(_, _, _, _, _), binaryLoop(_, _, _, _)
RECURSIVE classLoop(_, _), blockLoop(_, _)

\* Parser.statement.
statement(cur) ==
    Then(Rule("maybeStatement", cur), LAMBDA s :
        IF s.err # NoParseError THEN s
        ELSE IF s.node = Nil THEN Res(Nil, s.cur, ExpectedStatementError(last(s.cur)))
        ELSE s)

\* Parser.maybeStatement.
maybeStatement(cur) ==
    Then(peek(cur), LAMBDA tk :
        IF tk = NilToken THEN Res(Nil, cur, NoParseError)
        ELSE CASE tk.id = "TokenWhile" -> Rule("while", cur)
               [] tk.id = "TokenFor" -> Rule("forStatement", cur)
               [] tk.id = "TokenReturn" -> Rule("returnStatement", cur)
               [] OTHER -> Rule("maybeExpression", cur))

\* Parser.expression.
expression(cur) ==
    Then(Rule("maybeExpression", cur), LAMBDA e :
        IF e.err # NoParseError THEN e
        ELSE IF e.node = Nil THEN Res(Nil, e.cur, ExpectedExpressionError(last(e.cur)))
        ELSE e)

\* Parser.maybeExpression.
maybeExpression(cur) ==
    Then(peek(cur), LAMBDA tk :
        IF tk = NilToken THEN Res(Nil, cur, NoParseError)
        ELSE CASE tk.id = "TokenLeftCurly" -> Rule("block", cur)
               [] tk.id = "TokenClass" -> Rule("class", cur)
               [] tk.id = "TokenIf" -> Rule("conditional", cur)
               [] tk.id = "TokenFunc" -> Rule("funcExpr", cur)
               [] OTHER -> Rule("assignment", cur))

\* Parser.expression2.
expression2(cur) ==
    Then(peek(cur), LAMBDA tk :
        IF tk # NilToken /\ tk.id = "TokenClass" THEN Rule("class", cur)
        ELSE IF tk # NilToken /\ tk.id = "TokenFunc" THEN Rule("funcExpr", cur)
        ELSE IF tk # NilToken /\ tk.id = "TokenLeftParen" THEN Rule("groupedExpr", cur)
        ELSE Rule("atom", cur))

\* Parser.groupedExpr.
groupedExpr(cur) ==
    Then(match(cur, "TokenLeftParen"), LAMBDA lp :
        IF lp.err # NoParseError THEN Res(Nil, lp.cur, lp.err)
        ELSE Then(Rule("expression", lp.cur), LAMBDA e :
                 IF e.err # NoParseError THEN e
                 ELSE Then(match(e.cur, "TokenRightParen"), LAMBDA rp :
                          Res(e.node, rp.cur, rp.err))))

\* Parser.call.
call(cur) ==
    Then(Rule("expression2", cur), LAMBDA e :
        IF e.err # NoParseError THEN e ELSE callLoop(e.node, e.cur))

\* Parser.expressionList; getExpression names the rule, p.expression or
\* p.atom.
expressionList(getExpression, closingToken, cur) ==
    expressionListLoop(getExpression, closingToken, <<>>, TRUE, cur)

\* case tokenize.TokenLeftParen of the loop of Parser.call.
callArgs(node, cur) ==
    Then(consume(cur), LAMBDA lp :
        Then(expressionList("expression", "TokenRightParen", lp.cur), LAMBDA args :
            IF args.err # NoParseError
            THEN Res(CallNode(node, lp.token, args.node, NilToken), args.cur, args.err)
            ELSE Then(match(args.cur, "TokenRightParen"), LAMBDA rp :
                     IF rp.err # NoParseError
                     THEN Res(CallNode(node, lp.token, args.node, rp.token),
                              rp.cur, rp.err)
                     ELSE callLoop(CallNode(node, lp.token, args.node, rp.token),
                                   rp.cur))))

\* callLookup taking whatever token follows the dot for the key.
callLookup_anyKey(node, cur) ==
    Then(consume(cur), LAMBDA dot :
        Then(consume(dot.cur), LAMBDA key :
            IF key.token = NilToken
            THEN Res(LookupNode(node, ZeroIdentifierToken), key.cur,
                     ExpectedTokenError("TokenIdentifier", NilToken, last(key.cur)))
            ELSE callLoop(LookupNode(node, key.token), key.cur)))

\* case tokenize.TokenDot of the loop of Parser.call.
callLookup(node, cur) ==
    Then(consume(cur), LAMBDA dot :
        Then(matchIdentifier(dot.cur, "TokenIdentifier"), LAMBDA key :
            IF key.err # NoParseError
            THEN Res(LookupNode(node, key.token), key.cur, key.err)
            ELSE callLoop(LookupNode(node, key.token), key.cur)))

\* The loop of Parser.call.
callLoop(node, cur) ==
    Then(peek(cur), LAMBDA nextToken :
        IF nextToken = NilToken THEN Res(node, cur, NoParseError)
        ELSE IF nextToken.id = "TokenLeftParen" THEN callArgs(node, cur)
        ELSE IF nextToken.id = "TokenDot" THEN callLookup(node, cur)
        ELSE Res(node, cur, NoParseError))

\* expressionListNext reading an expression after every comma.
expressionListNext_noTrailingComma(getExpression, closingToken, expressions, isFirstExpr, cur) ==
    Then(IF isFirstExpr
         THEN [token |-> NilToken, cur |-> cur, err |-> NoParseError]
         ELSE match(cur, "TokenComma"),
         LAMBDA comma :
        IF comma.err # NoParseError
        THEN Res(expressions, comma.cur, comma.err)
        ELSE Then(Rule(getExpression, comma.cur), LAMBDA e :
                 IF e.err # NoParseError
                 THEN Res(expressions, e.cur, e.err)
                 ELSE expressionListLoop(getExpression, closingToken,
                                         Append(expressions, e.node), FALSE, e.cur)))

\* An iteration of the loop of Parser.expressionList after its first check
\* for the closing token: the comma, the trailing comma and the expression.
expressionListNext(getExpression, closingToken, expressions, isFirstExpr, cur) ==
    Then(IF isFirstExpr
         THEN [token |-> NilToken, cur |-> cur, err |-> NoParseError]
         ELSE match(cur, "TokenComma"),
         LAMBDA comma :
        Then(peek(comma.cur), LAMBDA close :
            IF comma.err # NoParseError
            THEN Res(expressions, comma.cur, comma.err)
            ELSE IF ~isFirstExpr /\ close # NilToken /\ close.id = closingToken
            THEN Res(expressions, comma.cur, NoParseError)
            ELSE Then(Rule(getExpression, comma.cur), LAMBDA e :
                     IF e.err # NoParseError
                     THEN Res(expressions, e.cur, e.err)
                     ELSE expressionListLoop(getExpression, closingToken,
                                             Append(expressions, e.node), FALSE, e.cur))))

\* The loop of Parser.expressionList.
expressionListLoop(getExpression, closingToken, expressions, isFirstExpr, cur) ==
    Then(peek(cur), LAMBDA close :
        IF close # NilToken /\ close.id = closingToken
        THEN Res(expressions, cur, NoParseError)
        ELSE expressionListNext(getExpression, closingToken, expressions, isFirstExpr, cur))

\* unary taking a whole product for the operand of a prefix operator.
unary_looseOperand(cur) ==
    Then(peek(cur), LAMBDA tk :
        IF tk # NilToken /\ tk.id \in unaryOperatorTokenIDs
        THEN Then(Rule("factor", cur + 1), LAMBDA operand :
                 Res(UnaryExprNode(GetToken(tk), operand.node), operand.cur, operand.err))
        ELSE Rule("call", cur))

\* Parser.unary.
unary(cur) ==
    Then(peek(cur), LAMBDA tk :
        IF tk # NilToken /\ tk.id \in unaryOperatorTokenIDs
        THEN Then(Rule("unary", cur + 1), LAMBDA operand :
                 Res(UnaryExprNode(GetToken(tk), operand.node), operand.cur, operand.err))
        ELSE Rule("call", cur))

\* Parser.binaryExpression; getOperand names the rule of the operands.
binaryExpression(operatorTokenIDs, getOperand, cur) ==
    Then(Rule(getOperand, cur), LAMBDA first :
        IF first.err # NoParseError THEN first
        ELSE binaryLoop(operatorTokenIDs, getOperand, first.node, first.cur))

\* binaryLoop taking all that follows an operator for its right operand.
binaryLoop_rightAssociative(operatorTokenIDs, getOperand, node, cur) ==
    Then(peek(cur), LAMBDA operator :
        IF operator = NilToken \/ operator.id \notin operatorTokenIDs
        THEN Res(node, cur, NoParseError)
        ELSE Then(binaryExpression(operatorTokenIDs, getOperand, cur + 1), LAMBDA rhs :
                 IF rhs.err # NoParseError
                 THEN Res(node, rhs.cur, rhs.err)
                 ELSE Res(BinaryExprNode(node, GetToken(operator), rhs.node),
                          rhs.cur, NoParseError)))

\* The loop of Parser.binaryExpression.
binaryLoop(operatorTokenIDs, getOperand, node, cur) ==
    Then(peek(cur), LAMBDA operator :
        IF operator = NilToken \/ operator.id \notin operatorTokenIDs
        THEN Res(node, cur, NoParseError)
        ELSE Then(Rule(getOperand, cur + 1), LAMBDA rhs :
                 IF rhs.err # NoParseError
                 THEN Res(node, rhs.cur, rhs.err)
                 ELSE binaryLoop(operatorTokenIDs, getOperand,
                                 BinaryExprNode(node, GetToken(operator), rhs.node),
                                 rhs.cur)))

\* Parser.factor, term, comparison, equality, conjunction, disjunction.
factor(cur) == binaryExpression(factorOperatorTokenIDs, "unary", cur)

term(cur) == binaryExpression(termOperatorTokenIDs, "factor", cur)

comparison(cur) == binaryExpression(comparisonOperatorTokenIDs, "term", cur)

equality(cur) == binaryExpression(equalityOperatorTokenIDs, "comparison", cur)

conjunction(cur) == binaryExpression(conjunctionOperatorTokenIDs, "equality", cur)

disjunction(cur) == binaryExpression(disjunctionOperatorTokenIDs, "conjunction", cur)

\* A BlockNode with no field set.
ZeroBlockNode == BlockNode(ZeroToken, <<>>, ZeroToken)

\* Parser.class from the match of the opening brace on.
classBody(node, cur) ==
    Then(match(cur, "TokenLeftCurly"), LAMBDA start :
        IF start.err # NoParseError
        THEN Res([node EXCEPT !.BodyStart = start.token], start.cur, start.err)
        ELSE classLoop([node EXCEPT !.BodyStart = start.token], start.cur))

\* Parser.class.
class(cur) ==
    Then(matchIdentifier(cur, "TokenClass"), LAMBDA cls :
        IF cls.err # NoParseError
        THEN Res(ClassNode(cls.token, NilToken, ZeroIdentifierToken, NilToken, <<>>,
                           NilToken),
                 cls.cur, cls.err)
        ELSE Then(maybeMatch(cls.cur, "TokenLess"), LAMBDA ext :
                 IF ext.token = NilToken
                 THEN classBody(ClassNode(cls.token, NilToken, ZeroIdentifierToken,
                                          NilToken, <<>>, NilToken),
                                ext.cur)
                 ELSE Then(matchIdentifier(ext.cur, "TokenIdentifier"), LAMBDA parent :
                          IF parent.err # NoParseError
                          THEN Res(ClassNode(cls.token, ext.token, parent.token, NilToken,
                                             <<>>, NilToken),
                                   parent.cur, parent.err)
                          ELSE classBody(ClassNode(cls.token, ext.token, parent.token,
                                                   NilToken, <<>>, NilToken),
                                         parent.cur))))

\* The value of an assignment in Parser.class: p.expression(), and then
\* p.disjunction() if that returned a value.
classValue(cur) ==
    Then(Rule("expression", cur), LAMBDA value :
        IF value.err # NoParseError THEN value
        ELSE IF value.node # Nil THEN Rule("disjunction", value.cur)
        ELSE value)

\* An iteration of the loop of Parser.class after it matched an identifier.
classAssignment(node, ident, cur) ==
    Then(match(cur, "TokenEqual"), LAMBDA equal :
        IF equal.err # NoParseError THEN Res(node, equal.cur, equal.err)
        ELSE Then(classValue(equal.cur), LAMBDA value :
                 IF value.err # NoParseError THEN Res(node, value.cur, value.err)
                 ELSE classLoop([node EXCEPT !.Body = Append(@,
                                     AssignmentNode(ident, equal.token, value.node))],
                                value.cur)))

\* The loop of Parser.class, and the closing brace after it.
classLoop(node, cur) ==
    Then(maybeMatch(cur, "TokenIdentifier"), LAMBDA ident :
        IF ident.token = NilToken
        THEN Then(match(ident.cur, "TokenRightCurly"), LAMBDA bodyEnd :
                 Res([node EXCEPT !.BodyEnd = bodyEnd.token], bodyEnd.cur, bodyEnd.err))
        ELSE classAssignment(node, ident.token, ident.cur))

\* Parser.returnStatement.
returnStatement(cur) ==
    Then(matchIdentifier(cur, "TokenReturn"), LAMBDA ret :
        IF ret.err # NoParseError
        THEN Res(ReturnNode(ret.token, Nil), ret.cur, ret.err)
        ELSE Then(Rule("maybeExpression", ret.cur), LAMBDA value :
                 Res(ReturnNode(ret.token, value.node), value.cur, value.err)))

\* funcParams taking every parameter, whatever its token.
funcParams_anyAtom(paramNodes) == [i \in DOMAIN paramNodes |-> paramNodes[i].Value]

\* The parameters of Parser.funcExpr that come before the first that is no
\* identifier.
funcParams(paramNodes) ==
    LET invalid == {i \in 1..Len(paramNodes) : paramNodes[i].Value.id # "TokenIdentifier"}
    IN [i \in 1..(IF invalid = {} THEN Len(paramNodes)
                  ELSE (CHOOSE i \in invalid : \A j \in invalid : i <= j) - 1) |->
            paramNodes[i].Value]

\* Parser.funcExpr from the match of the closing parenthesis on.
funcBody(func, lp, paramNodes, cur) ==
    Then(match(cur, "TokenRightParen"), LAMBDA rp :
        IF rp.err # NoParseError
        THEN Res(FuncNode(func, lp, <<>>, NilToken, ZeroBlockNode), rp.cur, rp.err)
        ELSE IF Len(funcParams(paramNodes)) < Len(paramNodes)
        THEN Res(FuncNode(func, lp, funcParams(paramNodes), rp.token, ZeroBlockNode), rp.cur,
                 InvalidFuncParamError(paramNodes[Len(funcParams(paramNodes)) + 1]))
        ELSE Then(Rule("block", rp.cur), LAMBDA body :
                 Res(FuncNode(func, lp, funcParams(paramNodes), rp.token, body.node),
                     body.cur, body.err)))

\* Parser.funcExpr.
funcExpr(cur) ==
    Then(match(cur, "TokenFunc"), LAMBDA func :
        IF func.err # NoParseError
        THEN Res(FuncNode(NilToken, NilToken, <<>>, NilToken, ZeroBlockNode),
                 func.cur, func.err)
        ELSE Then(match(func.cur, "TokenLeftParen"), LAMBDA lp :
                 IF lp.err # NoParseError
                 THEN Res(FuncNode(func.token, NilToken, <<>>, NilToken, ZeroBlockNode),
                          lp.cur, lp.err)
                 ELSE Then(expressionList("atom", "TokenRightParen", lp.cur),
                           LAMBDA paramNodes :
                          IF paramNodes.err # NoParseError
                          THEN Res(FuncNode(func.token, lp.token, <<>>, NilToken,
                                            ZeroBlockNode),
                                   paramNodes.cur, paramNodes.err)
                          ELSE funcBody(func.token, lp.token, paramNodes.node,
                                        paramNodes.cur))))

\* Parser.assignment once an '=' follows the expression expr.
assignmentTarget(expr, equal, cur) ==
    IF expr.kind # "Literal"
    THEN Res(LiteralNode(NilToken), cur, InvalidAssignmentTargetError(NilToken))
    ELSE IF expr.Value.id # "TokenIdentifier"
    THEN Res(expr, cur, InvalidAssignmentTargetError(expr.Value))
    ELSE Then(Rule("assignment", cur), LAMBDA rhs :
             Res(AssignmentNode(expr.Value, equal, rhs.node), rhs.cur, rhs.err))

\* Parser.assignment.
assignment(cur) ==
    Then(Rule("disjunction", cur), LAMBDA expr :
        IF expr.err # NoParseError THEN expr
        ELSE Then(maybeMatch(expr.cur, "TokenEqual"), LAMBDA equal :
                 IF equal.token = NilToken THEN Res(expr.node, equal.cur, NoParseError)
                 ELSE assignmentTarget(expr.node, equal.token, equal.cur)))

\* Parser.block.
block(cur) ==
    Then(match(cur, "TokenLeftCurly"), LAMBDA open :
        IF open.err # NoParseError THEN Res(ZeroBlockNode, open.cur, open.err)
        ELSE blockLoop(ZeroBlockNode, open.cur))

\* The closing brace that ends Parser.block.
blockEnd(node, cur) ==
    Then(match(cur, "TokenRightCurly"), LAMBDA close : Res(node, close.cur, close.err))

\* blockLoop reading a statement without looking for the closing brace first.
blockLoop_noPeek(node, cur) ==
    Then(Rule("maybeStatement", cur), LAMBDA stmt :
        IF stmt.err # NoParseError THEN Res(node, stmt.cur, stmt.err)
        ELSE IF stmt.node = Nil THEN blockEnd(node, stmt.cur)
        ELSE blockLoop([node EXCEPT !.Children = Append(@, stmt.node)], stmt.cur))

\* The loop of Parser.block, and the closing brace after it.
blockLoop(node, cur) ==
    Then(peek(cur), LAMBDA close :
        IF close # NilToken /\ close.id = "TokenRightCurly" THEN blockEnd(node, cur)
        ELSE Then(Rule("maybeStatement", cur), LAMBDA stmt :
                 IF stmt.err # NoParseError THEN Res(node, stmt.cur, stmt.err)
                 ELSE IF stmt.node = Nil THEN blockEnd(node, stmt.cur)
                 ELSE blockLoop([node EXCEPT !.Children = Append(@, stmt.node)],
                                stmt.cur)))

\* Parser.forStatement from the closing parenthesis on.
forBody(node, cur) ==
    Then(match(cur, "TokenRightParen"), LAMBDA rp :
        IF rp.err # NoParseError THEN Res(node, rp.cur, rp.err)
        ELSE Then(Rule("statement", rp.cur), LAMBDA body :
                 Res([node EXCEPT !.Body = body.node], body.cur, body.err)))

\* Parser.forStatement from the second semicolon on.
forUpdate(node, cur) ==
    Then(match(cur, "TokenSemicolon"), LAMBDA semi :
        IF semi.err # NoParseError THEN Res(node, semi.cur, semi.err)
        ELSE Then(Rule("maybeExpression", semi.cur), LAMBDA update :
                 IF update.err # NoParseError
                 THEN Res([node EXCEPT !.Update = update.node], update.cur, update.err)
                 ELSE forBody([node EXCEPT !.Update = update.node], update.cur)))

\* Parser.forStatement from the first semicolon on.
forCondition(node, cur) ==
    Then(match(cur, "TokenSemicolon"), LAMBDA semi :
        IF semi.err # NoParseError THEN Res(node, semi.cur, semi.err)
        ELSE Then(Rule("maybeExpression", semi.cur), LAMBDA cond :
                 IF cond.err # NoParseError
                 THEN Res([node EXCEPT !.Condition = cond.node], cond.cur, cond.err)
                 ELSE forUpdate([node EXCEPT !.Condition = cond.node], cond.cur)))

\* Parser.forStatement.
forStatement(cur) ==
    Then(matchIdentifier(cur, "TokenFor"), LAMBDA for :
        IF for.err # NoParseError
        THEN Res(ForNode(for.token, Nil, Nil, Nil, Nil), for.cur, for.err)
        ELSE Then(match(for.cur, "TokenLeftParen"), LAMBDA lp :
                 IF lp.err # NoParseError
                 THEN Res(ForNode(for.token, Nil, Nil, Nil, Nil), lp.cur, lp.err)
                 ELSE Then(Rule("maybeExpression", lp.cur), LAMBDA init :
                          IF init.err # NoParseError
                          THEN Res(ForNode(for.token, init.node, Nil, Nil, Nil),
                                   init.cur, init.err)
                          ELSE forCondition(ForNode(for.token, init.node, Nil, Nil, Nil),
                                            init.cur))))

\* Parser.while.
while(cur) ==
    Then(matchIdentifier(cur, "TokenWhile"), LAMBDA wh :
        IF wh.err # NoParseError THEN Res(WhileNode(wh.token, Nil, Nil), wh.cur, wh.err)
        ELSE Then(match(wh.cur, "TokenLeftParen"), LAMBDA lp :
                 IF lp.err # NoParseError
                 THEN Res(WhileNode(wh.token, Nil, Nil), lp.cur, lp.err)
                 ELSE Then(Rule("statement", lp.cur), LAMBDA body :
                          IF body.err # NoParseError
                          THEN Res(WhileNode(wh.token, Nil, body.node), body.cur, body.err)
                          ELSE Then(match(body.cur, "TokenRightParen"), LAMBDA rp :
                                   Res(WhileNode(wh.token, Nil, body.node),
                                       rp.cur, rp.err)))))

\* conditionalElse leaving an 'else' where it is.
conditionalElse_noElse(node, cur) == Res(node, cur, NoParseError)

\* Parser.conditional from the else on.
conditionalElse(node, cur) ==
    Then(maybeMatch(cur, "TokenElse"), LAMBDA else :
        IF else.token = NilToken THEN Res(node, else.cur, NoParseError)
        ELSE Then(Rule("statement", else.cur), LAMBDA falseBody :
                 Res([node EXCEPT !.Else = else.token, !.FalseBody = falseBody.node],
                     falseBody.cur, falseBody.err)))

\* Parser.conditional from the closing parenthesis on.
conditionalBody(node, cur) ==
    Then(match(cur, "TokenRightParen"), LAMBDA rp :
        IF rp.err # NoParseError THEN Res(node, rp.cur, rp.err)
        ELSE Then(Rule("statement", rp.cur), LAMBDA trueBody :
                 IF trueBody.err # NoParseError
                 THEN Res([node EXCEPT !.TrueBody = trueBody.node],
                          trueBody.cur, trueBody.err)
                 ELSE conditionalElse([node EXCEPT !.TrueBody = trueBody.node],
                                      trueBody.cur)))

\* Parser.conditional.
conditional(cur) ==
    Then(matchIdentifier(cur, "TokenIf"), LAMBDA if :
        IF if.err # NoParseError
        THEN Res(ConditionalNode(if.token, Nil, Nil, NilToken, Nil), if.cur, if.err)
        ELSE Then(match(if.cur, "TokenLeftParen"), LAMBDA lp :
                 IF lp.err # NoParseError
                 THEN Res(ConditionalNode(if.token, Nil, Nil, NilToken, Nil),
                          lp.cur, lp.err)
                 ELSE Then(Rule("expression", lp.cur), LAMBDA cond :
                          IF cond.err # NoParseError
                          THEN Res(ConditionalNode(if.token, cond.node, Nil, NilToken, Nil),
                                   cond.cur, cond.err)
                          ELSE conditionalBody(
                                   ConditionalNode(if.token, cond.node, Nil, NilToken, Nil),
                                   cond.cur))))

\* A call p.statement(), p.expression(), ... of one grammar rule by another,
\* or through getOperand and getExpression.
Rule(name, cur) ==
    CASE name = "statement" -> statement(cur)
      [] name = "maybeStatement" -> maybeStatement(cur)
      [] name = "maybeExpression" -> maybeExpression(cur)
      [] name = "expression" -> expression(cur)
      [] name = "expression2" -> expression2(cur)
      [] name = "atom" -> atom(cur)
      [] name = "groupedExpr" -> groupedExpr(cur)
      [] name = "call" -> call(cur)
      [] name = "unary" -> unary(cur)
      [] name = "factor" -> factor(cur)
      [] name = "term" -> term(cur)
      [] name = "comparison" -> comparison(cur)
      [] name = "equality" -> equality(cur)
      [] name = "conjunction" -> conjunction(cur)
      [] name = "disjunction" -> disjunction(cur)
      [] name = "class" -> class(cur)
      [] name = "returnStatement" -> returnStatement(cur)
      [] name = "funcExpr" -> funcExpr(cur)
      [] name = "assignment" -> assignment(cur)
      [] name = "block" -> block(cur)
      [] name = "forStatement" -> forStatement(cur)
      [] name = "while" -> while(cur)
      [] name = "conditional" -> conditional(cur)

(***************************************************************************)
(* Parse: one action per iteration of its loop, over token slices as       *)
(* Tokenize returns them.                                                  *)
(***************************************************************************)

\* The largest number of binary operators in a token sequence.
MaxOps == 4

\* Operators to chain: the arithmetic ones, one of each tier, the relational
\* ones, and all twelve.
ArithmeticOperators == {"TokenStar", "TokenSlash", "TokenPlus", "TokenMinus"}

TierOperators ==
    {"TokenStar", "TokenPlus", "TokenLess", "TokenEqualEqual", "TokenAnd", "TokenOr"}

RelationalOperators ==
    {"TokenGreater", "TokenGreaterEqual", "TokenLess", "TokenLessEqual",
     "TokenEqualEqual", "TokenBangEqual"}

BinaryOperators ==
    factorOperatorTokenIDs \cup termOperatorTokenIDs \cup comparisonOperatorTokenIDs
        \cup equalityOperatorTokenIDs \cup conjunctionOperatorTokenIDs
        \cup disjunctionOperatorTokenIDs

\* The sequences of 0..n of the operators ops.
OperatorRuns(ops, n) == UNION {[1..k -> ops] : k \in 0..n}

\* The operator token as the lexer builds it: a keyword is an IdentifierToken.
OperatorToken(id, c) ==
    IF id \in KeywordIDs THEN IdentifierToken(id, 1, c, <<>>) ELSE Token(id, 1, c)

\* The k-th atom of a sequence, at column c: a number, or one of
\* true y z false nil 's'.
NumberAtom(k, c) == NumberToken(1, c, [int |-> k, frac |-> <<>>])

MixedAtom(k, c) ==
    CASE k % 6 = 1 -> IdentifierToken("TokenTrue", 1, c, <<>>)
      [] k % 6 = 2 -> IdentifierToken("TokenIdentifier", 1, c, <<"y">>)
      [] k % 6 = 3 -> IdentifierToken("TokenIdentifier", 1, c, <<"z">>)
      [] k % 6 = 4 -> IdentifierToken("TokenFalse", 1, c, <<>>)
      [] k % 6 = 5 -> IdentifierToken("TokenNil", 1, c, <<>>)
      [] OTHER -> StringToken(1, c, <<"s">>)

AtomToken(mixed, k, c) == IF mixed THEN MixedAtom(k, c) ELSE NumberAtom(k, c)

\* atom (operator atom)* for the operators ops, the last atom dropped when
\* open.
Chain(ops, mixed, open) ==
    [i \in 1..(2 * Len(ops) + (IF open THEN 0 ELSE 1)) |->
        IF i % 2 = 1 THEN AtomToken(mixed, (i + 1) \div 2, i)
        ELSE OperatorToken(ops[i \div 2], i)]

Chains ==
    {Chain(ops, mixed, FALSE) :
        ops \in OperatorRuns(ArithmeticOperators, MaxOps)
                    \cup OperatorRuns(TierOperators, MaxOps)
                    \cup OperatorRuns(RelationalOperators, MaxOps)
                    \cup OperatorRuns(BinaryOperators, 2),
        mixed \in BOOLEAN}

\* Sequences that are no chain: one ending in an operator, one followed by
\* another statement, and the empty one.
OpenChains ==
    {Chain(ops, FALSE, TRUE) : ops \in OperatorRuns(BinaryOperators, 2) \ {<<>>}}

TwoStatements ==
    {Chain(ops, FALSE, FALSE) \o Chain(more, TRUE, FALSE) :
        ops \in OperatorRuns(TierOperators, 1), more \in OperatorRuns(TierOperators, 1)}

\* The token of a word of a program at column c, as the lexer builds it:
\* a keyword or an identifier is an IdentifierToken, a digit a NumberToken,
\* 's' a StringToken.
WordIDs ==
    [w \in {"(", ")", "{", "}", ",", ".", ";", "=", "+", "-", "!", "<", "*"} |->
        CASE w = "(" -> "TokenLeftParen"
          [] w = ")" -> "TokenRightParen"
          [] w = "{" -> "TokenLeftCurly"
          [] w = "}" -> "TokenRightCurly"
          [] w = "," -> "TokenComma"
          [] w = "." -> "TokenDot"
          [] w = ";" -> "TokenSemicolon"
          [] w = "=" -> "TokenEqual"
          [] w = "+" -> "TokenPlus"
          [] w = "-" -> "TokenMinus"
          [] w = "!" -> "TokenBang"
          [] w = "<" -> "TokenLess"
          [] w = "*" -> "TokenStar"]

KeywordWords ==
    [w \in {"and", "class", "else", "false", "for", "func", "if", "nil", "or", "return",
            "true", "while"} |->
        CASE w = "and" -> "TokenAnd"
          [] w = "class" -> "TokenClass"
          [] w = "else" -> "TokenElse"
          [] w = "false" -> "TokenFalse"
          [] w = "for" -> "TokenFor"
          [] w = "func" -> "TokenFunc"
          [] w = "if" -> "TokenIf"
          [] w = "nil" -> "TokenNil"
          [] w = "or" -> "TokenOr"
          [] w = "return" -> "TokenReturn"
          [] w = "true" -> "TokenTrue"
          [] w = "while" -> "TokenWhile"]

WordToken(w, c) ==
    IF w \in DOMAIN WordIDs THEN Token(WordIDs[w], 1, c)
    ELSE IF w \in DOMAIN KeywordWords THEN IdentifierToken(KeywordWords[w], 1, c, <<>>)
    ELSE IF w = "1" THEN NumberToken(1, c, [int |-> 1, frac |-> <<>>])
    ELSE IF w = "2" THEN NumberToken(1, c, [int |-> 2, frac |-> <<>>])
    ELSE IF w = "'s'" THEN StringToken(1, c, <<"s">>)
    ELSE IdentifierToken("TokenIdentifier", 1, c, <<w>>)

\* The tokens of a program given by its words.
Program(words) == [i \in 1..Len(words) |-> WordToken(words[i], i)]

\* target '=' value, for every shape of target: an identifier, other
\* literals, a lookup, calls, a binary and two unary operations, and
\* parenthesised expressions.
AssignmentTargets ==
    {<<"x">>, <<"1">>, <<"'s'">>, <<"true">>, <<"nil">>, <<"a", ".", "b">>,
     <<"f", "(", ")">>, <<"f", "(", "x", ")">>, <<"a", "+", "b">>, <<"-", "a">>,
     <<"!", "a">>, <<"(", "x", ")">>, <<"(", "1", ")">>, <<"(", "a", "+", "b", ")">>,
     <<"(", "(", "x", ")", ")">>}

AssignmentValues == {<<"1">>, <<"y">>, <<"y", "+", "1">>, <<"y", "=", "1">>}

AssignmentInputs ==
    {Program(target \o <<"=">> \o value) :
        target \in AssignmentTargets, value \in AssignmentValues}

\* 'while' '(' condition ')' body.
Conditions == {<<"x">>, <<"true">>, <<"x", "<", "1">>}

Bodies == {<<"y">>, <<"y", "=", "1">>, <<"{", "y", "}">>, <<"{", "}">>}

WhileInputs ==
    {Program(<<"while", "(">> \o condition \o <<")">> \o body) :
        condition \in Conditions, body \in Bodies}

\* 'for' '(' init ';' condition ';' update ')' body, each clause present or
\* left out.
Inits == {<<>>, <<"i", "=", "1">>}

Tests == {<<>>, <<"i", "<", "2">>}

Updates == {<<>>, <<"i", "=", "i", "+", "1">>}

ForBodies == {<<"x">>, <<"{", "}">>}

ForWords(init, test, update, body) ==
    <<"for", "(">> \o init \o <<";">> \o test \o <<";">> \o update \o <<")">> \o body

ForInputs ==
    {Program(ForWords(init, test, update, body)) :
        init \in Inits, test \in Tests, update \in Updates, body \in ForBodies}

\* A 'return' without a value: at the end of the tokens, and right before
\* the '}' of the block around it; and the same with a value.
OpenPrefixes == {<<>>, <<"x">>}

BlockPrefixes == {<<"{">>, <<"{", "x">>, <<"func", "(", ")", "{">>}

ReturnValues == {<<>>, <<"y">>, <<"y", "+", "1">>}

ReturnWords(prefix, value) ==
    prefix \o <<"return">> \o value \o (IF prefix \in BlockPrefixes THEN <<"}">> ELSE <<>>)

ReturnInputs ==
    {Program(ReturnWords(prefix, value)) :
        prefix \in OpenPrefixes \cup BlockPrefixes, value \in ReturnValues}

\* The largest number of members of a class body.
MaxMembers == 2

\* 'class' ('<' parent)? '{' (name '=' value)* '}' with 0..MaxMembers
\* members named m.
MemberValues == {<<"1">>, <<"'s'">>, <<"y", "+", "1">>}

Parents == {<<>>, <<"<", "p">>}

RECURSIVE Members(_)
Members(values) ==
    IF values = <<>> THEN <<>>
    ELSE <<"m", "=">> \o Head(values) \o Members(Tail(values))

ClassWords(parent, values) == <<"class">> \o parent \o <<"{">> \o Members(values) \o <<"}">>

MemberLists == UNION {[1..n -> MemberValues] : n \in 0..MaxMembers}

ClassInputs ==
    {Program(ClassWords(parent, values)) : parent \in Parents, values \in MemberLists}

\* The largest number of statements in a block.
MaxStatements == 3

\* '{' statement* '}' and the same without the '}', for 0..MaxStatements
\* statements: an expression, an assignment, an empty block, a block and a
\* return with a value.
BlockStatements ==
    {<<"x">>, <<"y", "=", "1">>, <<"{", "}">>, <<"{", "z", "}">>, <<"return", "y">>}

RECURSIVE Concat(_)
Concat(seqs) == IF seqs = <<>> THEN <<>> ELSE Head(seqs) \o Concat(Tail(seqs))

StatementLists == UNION {[1..n -> BlockStatements] : n \in 0..MaxStatements}

BlockWords(stmts, closed) ==
    <<"{">> \o Concat(stmts) \o (IF closed THEN <<"}">> ELSE <<>>)

BlockInputs ==
    {Program(BlockWords(stmts, closed)) : stmts \in StatementLists, closed \in BOOLEAN}

\* The largest number of calls and lookups after an atom.
MaxSuffixes == 3

\* f followed by 0..MaxSuffixes calls and lookups, and by a '.' that no
\* identifier follows: a keyword, a number, or nothing.
Suffixes == {<<"(", ")">>, <<"(", "x", ")">>, <<"(", "y", ")">>, <<".", "g">>}

DanglingDots == {<<".", "if">>, <<".", "1">>, <<".">>}

SuffixLists == UNION {[1..n -> Suffixes \cup DanglingDots] : n \in 0..MaxSuffixes}

PostfixWords(suffixes) == <<"f">> \o Concat(suffixes)

PostfixInputs == {Program(PostfixWords(suffixes)) : suffixes \in SuffixLists}

\* The largest number of elements and commas between the parentheses of a
\* list.
MaxItems == 4

\* f '(' items ')' and 'func' '(' items ')' '{' '}' for every sequence of
\* 0..MaxItems of a, b and ','.
ItemLists == UNION {[1..n -> {"a", "b", ","}] : n \in 0..MaxItems}

ArgumentWords(items) == <<"f", "(">> \o items \o <<")">>

ParameterWords(items) == <<"func", "(">> \o items \o <<")", "{", "}">>

ListInputs ==
    {Program(ArgumentWords(items)) : items \in ItemLists}
        \cup {Program(ParameterWords(items)) : items \in ItemLists}

\* The largest number of parameters of a func.
MaxParams == 2

\* 'func' '(' parameters ')' block for 0..MaxParams parameters separated by
\* commas, each an identifier or another atomic token.
Identifiers == {"x", "y"}

OtherAtoms == {"1", "'s'", "true", "false", "nil"}

ParamLists == UNION {[1..n -> Identifiers \cup OtherAtoms] : n \in 0..MaxParams}

FuncBlocks == {<<"{", "}">>, <<"{", "x", "}">>}

RECURSIVE Separate(_)
Separate(words) ==
    IF Len(words) <= 1 THEN words
    ELSE <<Head(words), ",">> \o Separate(Tail(words))

FuncWords(params, body) == <<"func", "(">> \o Separate(params) \o <<")">> \o body

FuncInputs ==
    {Program(FuncWords(params, body)) : params \in ParamLists, body \in FuncBlocks}

\* The largest number of prefix operators before an operand.
MaxPrefixes == 3

\* 0..MaxPrefixes of '!' and '-' before an atom, a call or a lookup, alone
\* or as the left or the right operand of a binary operator of each of four
\* tiers.
PrefixRuns == UNION {[1..n -> {"!", "-"}] : n \in 0..MaxPrefixes}

Operands == {<<"x">>, <<"f", "(", "x", ")">>, <<"a", ".", "g">>}

Infixes == {"*", "+", "<", "and"}

UnaryWords(prefixes, operand, infix, side) ==
    CASE side = "alone" -> prefixes \o operand
      [] side = "left" -> prefixes \o operand \o <<infix, "b">>
      [] side = "right" -> <<"b", infix>> \o prefixes \o operand

UnaryInputs ==
    {Program(UnaryWords(prefixes, operand, infix, side)) :
        prefixes \in PrefixRuns, operand \in Operands, infix \in Infixes,
        side \in {"alone", "left", "right"}}

\* The largest number of statements before a malformed one.
MaxGood == 2

\* 0..MaxGood statements, a malformed statement, and a token after it.  at
\* is the place in the malformed statement of the token that is wrong.
GoodStatements == {<<"x">>, <<"y", "=", "1">>, <<"{", "z", "}">>}

Malformed ==
    {[words |-> <<"1", "=", "2">>, at |-> 1, kind |-> "InvalidAssignmentTarget"],
     [words |-> <<"a", ".", "1">>, at |-> 3, kind |-> "ExpectedToken"],
     [words |-> <<"while", "x">>, at |-> 2, kind |-> "ExpectedToken"],
     [words |-> <<"f", "(", ",">>, at |-> 3, kind |-> "UnexpectedToken"],
     [words |-> <<"{", "x", ")", "}">>, at |-> 3, kind |-> "UnexpectedToken"],
     [words |-> <<"a", "+", "+">>, at |-> 3, kind |-> "UnexpectedToken"],
     [words |-> <<"func", "(", "1", ",", "x", ")", "{", "}">>, at |-> 3,
      kind |-> "InvalidFuncParam"]}

Rests == {<<>>, <<"w">>}

GoodLists == UNION {[1..n -> GoodStatements] : n \in 0..MaxGood}

FailWords(good, bad, rest) == Concat(good) \o bad.words \o rest

FailInputs ==
    {Program(FailWords(good, bad, rest)) :
        good \in GoodLists, bad \in Malformed, rest \in Rests}

\* Tokens no statement starts with, where a statement is read.
Strays == {")", "}", ";", "else"}

\* Statements, a stray token, and what follows it.
StrayInputs ==
    {Program(Concat(good) \o <<stray>> \o rest) :
        good \in GoodLists, stray \in Strays, rest \in Rests}

\* Conditionals, nested in the true branch, in the false branch and in a
\* block, with and without 'else'.
IfShapes ==
    [plain |-> <<"if", "(", "a", ")", "x">>,
     else |-> <<"if", "(", "a", ")", "x", "else", "y">>,
     dangling |-> <<"if", "(", "a", ")", "if", "(", "b", ")", "x", "else", "y">>,
     both |-> <<"if", "(", "a", ")", "if", "(", "b", ")", "x", "else", "y", "else", "z">>,
     chain |-> <<"if", "(", "a", ")", "x", "else", "if", "(", "b", ")", "y", "else", "z">>,
     deep |-> <<"if", "(", "a", ")", "if", "(", "b", ")", "if", "(", "c", ")", "x",
                "else", "y">>,
     block |-> <<"if", "(", "a", ")", "{", "if", "(", "b", ")", "x", "}", "else", "y">>]

\* What follows the conditional: nothing, or one or two more statements.
IfRests == {<<>>, <<"w">>, <<"w", "=", "1">>, <<"{", "}", "w">>}

IfInputs ==
    {Program(IfShapes[shape] \o rest) : shape \in DOMAIN IfShapes, rest \in IfRests}

ParseInputs == Chains \cup OpenChains \cup TwoStatements \cup {<<>>}
        \cup AssignmentInputs
        \cup WhileInputs
        \cup ForInputs
        \cup ReturnInputs
        \cup ClassInputs
        \cup BlockInputs
        \cup PostfixInputs
        \cup ListInputs
        \cup FuncInputs
        \cup UnaryInputs
        \cup FailInputs
        \cup StrayInputs
        \cup IfInputs

\* NewParser on a token slice; the lexer has finished.
ParseInit ==
    /\ ptokens \in ParseInputs
    /\ curTokenIdx = 0
    /\ statements = <<>>
    /\ perr = NoParseError
    /\ pdone = FALSE
    /\ input = <<>>
    /\ r = 0
    /\ lastRuneSize = -1
    /\ line = 1
    /\ column = 0
    /\ tokens = <<>>
    /\ err = NoError
    /\ done = TRUE
    /\ starts = <<>>
    /\ ends = <<>>
    /\ errAt = 0

\* The statement an iteration of Parse reads.
Stmt == maybeStatement(curTokenIdx)

\* ParseAppend reading the next statement from the same cursor.
ParseAppend_noAdvance ==
    /\ ~pdone
    /\ Stmt.err = NoParseError
    /\ Stmt.node # Nil
    /\ statements' = Append(statements, Stmt.node)
    /\ UNCHANGED <<ptokens, curTokenIdx, perr, pdone, lexVars>>

\* Parse: maybeStatement returns a statement, which is appended.
ParseAppend ==
    /\ ~pdone
    /\ Stmt.err = NoParseError
    /\ Stmt.node # Nil
    /\ statements' = Append(statements, Stmt.node)
    /\ curTokenIdx' = Stmt.cur
    /\ UNCHANGED <<ptokens, perr, pdone, lexVars>>

\* ParseFail keeping the node of the failing statement.
ParseFail_keepsPartial ==
    /\ ~pdone
    /\ Stmt.err # NoParseError
    /\ perr' = Stmt.err
    /\ curTokenIdx' = Stmt.cur
    /\ pdone' = TRUE
    /\ statements' = Append(statements, Stmt.node)
    /\ UNCHANGED <<ptokens, lexVars>>

\* Parse: maybeStatement returns an error, which ends the parse.
ParseFail ==
    /\ ~pdone
    /\ Stmt.err # NoParseError
    /\ perr' = Stmt.err
    /\ curTokenIdx' = Stmt.cur
    /\ pdone' = TRUE
    /\ UNCHANGED <<ptokens, statements, lexVars>>

\* Parse: maybeStatement returns nil at the end of the tokens.
ParseBreak ==
    /\ ~pdone
    /\ Stmt.err = NoParseError
    /\ Stmt.node = Nil
    /\ curTokenIdx' = Stmt.cur
    /\ pdone' = TRUE
    /\ UNCHANGED <<ptokens, statements, perr, lexVars>>

ParseNext ==
    \/ ParseAppend
    \/ ParseFail
    \/ ParseBreak

ParseSpec == ParseInit /\ [][ParseNext]_vars

Tier(id) ==
    CASE id \in {"TokenStar", "TokenSlash"} -> 1
      [] id \in {"TokenPlus", "TokenMinus"} -> 2
      [] id \in {"TokenGreater", "TokenGreaterEqual", "TokenLess", "TokenLessEqual"} -> 3
      [] id \in {"TokenEqualEqual", "TokenBangEqual"} -> 4
      [] id = "TokenAnd" -> 5
      [] id = "TokenOr" -> 6

\* ptokens is atom (operator atom)*.
IsChain ==
    /\ Len(ptokens) % 2 = 1
    /\ \A i \in 1..Len(ptokens) :
           IF i % 2 = 1 THEN ptokens[i].id \in atomicTokenIDs
           ELSE ptokens[i].id \in BinaryOperators

\* The operator last applied in ptokens[lo..hi]: the loosest one, and of the
\* loosest ones the rightmost.
Root(lo, hi) ==
    LET at == {i \in lo..hi : i % 2 = 0}
    IN CHOOSE k \in at :
           \A i \in at : \/ Tier(ptokens[i].id) < Tier(ptokens[k].id)
                         \/ Tier(ptokens[i].id) = Tier(ptokens[k].id) /\ i <= k

\* The nesting of ptokens[lo..hi] by tier, left to right within a tier:
\* <<operator, left, right>>, or <<atom>>.
RECURSIVE Nesting(_, _)
Nesting(lo, hi) ==
    IF lo = hi THEN <<ptokens[lo]>>
    ELSE LET k == Root(lo, hi)
         IN <<ptokens[k].id, Nesting(lo, k - 1), Nesting(k + 1, hi)>>

\* The nesting a parsed expression has: <<operator, left, right>> for a
\* binary operation, <<atom>> for a literal.
RECURSIVE Shape(_)
Shape(node) ==
    IF node.kind = "Literal" THEN <<node.Value>>
    ELSE IF node.kind \in {"Binary", "Logical"}
    THEN <<node.Operator.id, Shape(node.LHS), Shape(node.RHS)>>
    ELSE <<node.kind>>

\* The operators of ptokens, in order.
Operators == [i \in 1..(Len(ptokens) \div 2) |-> ptokens[2 * i].id]

\* C10: a sequence of atoms separated by binary operators parses without
\* error to one expression, nested by tier, tightest first: (*,/), (+,-),
\* (>,>=,<,<=), (==,!=), and, or; operators of one tier associate to the
\* left.  1 + 2 * 3 / 4 - 5 is (- (+ 1 (/ (* 2 3) 4)) 5), and
\* true and y or z and false is (or (and true y) (and z false)).
C10_NestsByTier ==
    (pdone /\ IsChain) =>
        /\ perr = NoParseError
        /\ curTokenIdx = Len(ptokens)
        /\ Len(statements) = 1
        /\ Shape(statements[1]) = Nesting(1, Len(ptokens))
        /\ Operators = <<"TokenPlus", "TokenStar", "TokenSlash", "TokenMinus">> =>
               Shape(statements[1]) =
                   <<"TokenMinus",
                     <<"TokenPlus", <<ptokens[1]>>,
                       <<"TokenSlash", <<"TokenStar", <<ptokens[3]>>, <<ptokens[5]>>>>,
                         <<ptokens[7]>>>>>>,
                     <<ptokens[9]>>>>
        /\ Operators = <<"TokenAnd", "TokenOr", "TokenAnd">> =>
               Shape(statements[1]) =
                   <<"TokenOr",
                     <<"TokenAnd", <<ptokens[1]>>, <<ptokens[3]>>>>,
                     <<"TokenAnd", <<ptokens[5]>>, <<ptokens[7]>>>>>>

\* C10's case: 1 + 2 * 3 / 4 - 5 parsed, the two tiers interleaved and the
\* operators of a tier nested to the left.
C10_Witness ==
    /\ pdone
    /\ IsChain
    /\ Operators = <<"TokenPlus", "TokenStar", "TokenSlash", "TokenMinus">>
    /\ ptokens[1].id = "TokenNumber"
    /\ Len(statements) = 1
    /\ statements[1].kind = "Binary"
    /\ statements[1].Operator.id = "TokenMinus"
    /\ statements[1].LHS.RHS.Operator.id = "TokenSlash"
    /\ statements[1].LHS.RHS.LHS.Operator.id = "TokenStar"

\* The nodes directly below a node.
Parts(node) ==
    CASE node.kind = "Unary" -> {node.Operand}
      [] node.kind \in {"Binary", "Logical"} -> {node.LHS, node.RHS}
      [] node.kind = "Assignment" -> {node.RHS}
      [] node.kind = "Call" -> {node.Function} \cup {node.Args[i] : i \in DOMAIN node.Args}
      [] node.kind = "Lookup" -> {node.Value}
      [] node.kind = "Func" -> {node.Body}
      [] node.kind = "Block" -> {node.Children[i] : i \in DOMAIN node.Children}
      [] node.kind = "Conditional" -> {node.Condition, node.TrueBody, node.FalseBody}
      [] node.kind = "While" -> {node.Condition, node.Body}
      [] node.kind = "For" -> {node.Init, node.Condition, node.Update, node.Body}
      [] node.kind = "Return" -> {node.Value}
      [] node.kind = "Class" -> {node.Body[i] : i \in DOMAIN node.Body}
      [] OTHER -> {}

\* The nodes of a tree.
RECURSIVE Nodes(_)
Nodes(node) == {node} \cup UNION {Nodes(part) : part \in Parts(node)}

\* The nodes of the statements parsed so far.
Parsed == UNION {Nodes(statements[i]) : i \in DOMAIN statements}

\* The nodes with an operator between two operands, of either variant.
Operations == {node \in Parsed : node.kind \in {"Binary", "Logical"}}

\* C11: every 'and' and every 'or' operation of a parsed program is a
\* Logical node, never a Binary node, and a Logical node's operator is the
\* keyword token.
C11_AndOrAreLogical ==
    \A node \in Operations :
        /\ node.Operator.id \in {"TokenAnd", "TokenOr"} => node.kind = "Logical"
        /\ node.kind = "Logical" => node.Operator.id \in {"TokenAnd", "TokenOr"}

\* ptokens is target '=' value.
IsAssignment(target, value) == ptokens = Program(target \o <<"=">> \o value)

\* C12: target '=' value parses to an Assignment node only when the target
\* is exactly one identifier token; for every other target (another
\* literal, a lookup, a call, a binary or unary operation, a parenthesised
\* expression, a parenthesised identifier included) the parse ends with an
\* invalid-assignment-target error and without an Assignment node.
C12_TargetIsOneIdentifier ==
    \A target \in AssignmentTargets, value \in AssignmentValues :
        (pdone /\ IsAssignment(target, value)) =>
            IF target = <<"x">>
            THEN /\ perr = NoParseError
                 /\ Len(statements) = 1
                 /\ statements[1].kind = "Assignment"
                 /\ statements[1].LHS = ptokens[1]
                 /\ statements[1].Equal = ptokens[2]
            ELSE /\ perr.kind = "InvalidAssignmentTarget"
                 /\ \A node \in Parsed : node.kind # "Assignment"

\* The atomic tokens of a tree: the values of its literals and the targets
\* of its assignments.
Atoms(node) ==
    {part.Value : part \in {n \in Nodes(node) : n.kind = "Literal"}}
        \cup {part.LHS : part \in {n \in Nodes(node) : n.kind = "Assignment"}}

\* The atomic tokens of ptokens[lo..hi].
AtomsBetween(lo, hi) ==
    {ptokens[i] : i \in {j \in lo..hi : j \in DOMAIN ptokens /\ ptokens[j].id \in atomicTokenIDs}}

\* ptokens is 'while' '(' condition ')' body.
IsWhile(condition, body) ==
    ptokens = Program(<<"while", "(">> \o condition \o <<")">> \o body)

\* C13: 'while' '(' expression ')' statement parses to exactly one While
\* node, whose condition is the parenthesised expression and whose body is
\* the statement after ')'; that statement is no sibling of the While node.
C13_WhileHasConditionAndBody ==
    \A condition \in Conditions, body \in Bodies :
        (pdone /\ IsWhile(condition, body)) =>
            /\ perr = NoParseError
            /\ Len(statements) = 1
            /\ statements[1].kind = "While"
            /\ statements[1].While = ptokens[1]
            /\ statements[1].Condition # Nil
            /\ Atoms(statements[1].Condition) = AtomsBetween(3, 2 + Len(condition))
            /\ statements[1].Body # Nil
            /\ Atoms(statements[1].Body) = AtomsBetween(4 + Len(condition), Len(ptokens))

\* C14: each of the three clauses of a for header may be left out: for
\* every subset of clauses left out, 'for' '(' init ';' condition ';'
\* update ')' body parses without error to one For node holding the clauses
\* that are present; 'for (;;) x' parses.
C14_ForClausesOptional ==
    \A init \in Inits, test \in Tests, update \in Updates, body \in ForBodies :
        (pdone /\ ptokens = Program(ForWords(init, test, update, body))) =>
            /\ perr = NoParseError
            /\ Len(statements) = 1
            /\ statements[1].kind = "For"
            /\ statements[1].For = ptokens[1]
            /\ (statements[1].Init = Nil) = (init = <<>>)
            /\ (statements[1].Condition = Nil) = (test = <<>>)
            /\ (statements[1].Update = Nil) = (update = <<>>)
            /\ statements[1].Body # Nil

\* The Return nodes parsed.
Returns == {node \in Parsed : node.kind = "Return"}

\* C15: a 'return' that no expression follows parses to a Return node
\* without a value and without an error, at the end of the tokens and right
\* before the '}' that closes the block around it; the '}' is left to the
\* block, which consumes it.
C15_BareReturn ==
    \A prefix \in OpenPrefixes \cup BlockPrefixes :
        (pdone /\ ptokens = Program(ReturnWords(prefix, <<>>))) =>
            /\ perr = NoParseError
            /\ curTokenIdx = Len(ptokens)
            /\ Returns = {ReturnNode(ptokens[Len(prefix) + 1], Nil)}
            /\ prefix \in BlockPrefixes =>
                   /\ Len(statements) = 1
                   /\ statements[1].kind \in {"Block", "Func"}

\* The index in ptokens of the name of the i-th member of a class.
MemberAt(parent, values, i) == Len(parent) + 2 + Len(Members(SubSeq(values, 1, i - 1))) + 1

\* C16: a class whose body holds n >= 0 members name '=' value parses
\* without error to one Class node whose member list is exactly n
\* Assignment nodes in source order, each value consumed exactly once.
C16_ClassMembers ==
    \A parent \in Parents, values \in MemberLists :
        (pdone /\ ptokens = Program(ClassWords(parent, values))) =>
            /\ perr = NoParseError
            /\ curTokenIdx = Len(ptokens)
            /\ Len(statements) = 1
            /\ statements[1].kind = "Class"
            /\ Len(statements[1].Body) = Len(values)
            /\ \A i \in 1..Len(values) :
                   /\ statements[1].Body[i].kind = "Assignment"
                   /\ statements[1].Body[i].LHS = ptokens[MemberAt(parent, values, i)]
                   /\ statements[1].Body[i].Equal = ptokens[MemberAt(parent, values, i) + 1]
                   /\ Atoms(statements[1].Body[i].RHS) =
                          AtomsBetween(MemberAt(parent, values, i) + 2,
                                       MemberAt(parent, values, i) + 1 + Len(values[i]))

\* The kind of node a statement of BlockStatements is.
StatementKind(words) ==
    CASE words[1] = "{" -> "Block"
      [] words[1] = "return" -> "Return"
      [] Len(words) = 1 -> "Literal"
      [] OTHER -> "Assignment"

\* The index in ptokens of the first token of the i-th statement of a block.
StatementAt(stmts, i) == 1 + Len(Concat(SubSeq(stmts, 1, i - 1))) + 1

\* C17: '{' statement* '}' parses to one Block node whose children are
\* exactly the statements between the braces, in order; '{' '}' parses to a
\* Block without children; the statement rule is not applied to the closing
\* '}', which would be an unexpected token to it; and the end of the tokens
\* before the '}' is an expected-token error for '}'.
C17_BlockChildren ==
    \A stmts \in StatementLists :
        /\ (pdone /\ ptokens = Program(BlockWords(stmts, TRUE))) =>
               /\ perr = NoParseError
               /\ curTokenIdx = Len(ptokens)
               /\ Len(statements) = 1
               /\ statements[1].kind = "Block"
               /\ Len(statements[1].Children) = Len(stmts)
               /\ \A i \in 1..Len(stmts) :
                      /\ statements[1].Children[i].kind = StatementKind(stmts[i])
                      /\ Atoms(statements[1].Children[i]) =
                             AtomsBetween(StatementAt(stmts, i),
                                          StatementAt(stmts, i) + Len(stmts[i]) - 1)
        /\ (pdone /\ ptokens = Program(BlockWords(stmts, FALSE))) =>
               /\ perr = ExpectedTokenError("TokenRightCurly", NilToken, ptokens[Len(ptokens)])
               /\ statements = <<>>

\* C17's case: a block of three statements, a block among them, parsed.
C17_Witness ==
    /\ pdone
    /\ perr = NoParseError
    /\ Len(statements) = 1
    /\ statements[1].kind = "Block"
    /\ Len(statements[1].Children) = 3
    /\ statements[1].Children[1].kind = "Assignment"
    /\ statements[1].Children[2].kind = "Block"
    /\ statements[1].Children[2].Children = <<>>
    /\ statements[1].Children[3].kind = "Return"
    /\ ptokens[Len(ptokens)].id = "TokenRightCurly"

\* The index in ptokens of the first token of the n-th suffix.
SuffixAt(suffixes, n) == 1 + Len(Concat(SubSeq(suffixes, 1, n - 1))) + 1

\* The tree of f followed by the first n suffixes, each call or lookup
\* applied to all that stands before it.
RECURSIVE Applied(_, _)
Applied(suffixes, n) ==
    IF n = 0 THEN LiteralNode(ptokens[1])
    ELSE LET at == SuffixAt(suffixes, n)
             size == Len(suffixes[n])
         IN IF suffixes[n][1] = "("
            THEN CallNode(Applied(suffixes, n - 1), ptokens[at],
                          [i \in 1..(size - 2) |-> LiteralNode(ptokens[at + i])],
                          ptokens[at + size - 1])
            ELSE LookupNode(Applied(suffixes, n - 1), ptokens[at + 1])

\* C18: the calls and lookups after an atom apply from left to right, each
\* to all that stands before it: f(x).g(y) is
\* Call(Lookup(Call(f, [x]), g), [y]); and a '.' that no identifier token
\* follows (a keyword follows, another token, or none) is an expected-token
\* error.
C18_PostfixChain ==
    \A suffixes \in SuffixLists :
        (pdone /\ ptokens = Program(PostfixWords(suffixes))) =>
            /\ (\A n \in DOMAIN suffixes : suffixes[n] \in Suffixes) =>
                   /\ perr = NoParseError
                   /\ statements = <<Applied(suffixes, Len(suffixes))>>
            /\ (\E n \in DOMAIN suffixes : suffixes[n] \in DanglingDots) =>
                   /\ perr.kind = "ExpectedToken"
                   /\ perr.expected = "TokenIdentifier"
                   /\ statements = <<>>
            /\ suffixes = <<<<"(", "x", ")">>, <<".", "g">>, <<"(", "y", ")">>>> =>
                   statements =
                       <<CallNode(LookupNode(CallNode(LiteralNode(ptokens[1]), ptokens[2],
                                                      <<LiteralNode(ptokens[3])>>,
                                                      ptokens[4]),
                                             ptokens[6]),
                                  ptokens[7], <<LiteralNode(ptokens[8])>>, ptokens[9])>>

\* C18's cases: f(x).g(y) parsed, and a parse ended at a '.' before a
\* keyword.
C18_Witness ==
    /\ pdone
    /\ ptokens = Program(<<"f", "(", "x", ")", ".", "g", "(", "y", ")">>)
    /\ Len(statements) = 1
    /\ statements[1].kind = "Call"
    /\ statements[1].Function.kind = "Lookup"
    /\ statements[1].Function.Value.kind = "Call"

C18_WitnessKeyword ==
    /\ pdone
    /\ ptokens = Program(<<"f", ".", "g", ".", "if">>)
    /\ perr.kind = "ExpectedToken"

\* A list of elements separated by single commas, with or without a comma
\* after the last: no comma leads, no two commas and no two elements are
\* next to each other.
Separated(items) == \A i \in DOMAIN items : (items[i] = ",") = (i % 2 = 0)

\* The tokens of the elements of a separated list that starts at
\* ptokens[3].
Elements(items) == [k \in 1..((Len(items) + 1) \div 2) |-> ptokens[2 * k + 1]]

\* The elements as literals.
Literals(items) == [k \in DOMAIN Elements(items) |-> LiteralNode(Elements(items)[k])]

\* C19: an argument list and a parameter list accept no element, n elements
\* separated by single commas, and n >= 1 elements with one comma after the
\* last; the list is exactly those n elements in order, and the closing
\* token is left unconsumed.  A leading comma, two commas in a row and two
\* elements without a comma between them are errors.
C19_ExpressionList ==
    \A items \in ItemLists :
        /\ (pdone /\ ptokens = Program(ArgumentWords(items))) =>
               IF Separated(items)
               THEN /\ expressionList("expression", "TokenRightParen", 2) =
                           Res(Literals(items), 2 + Len(items), NoParseError)
                    /\ perr = NoParseError
                    /\ statements =
                           <<CallNode(LiteralNode(ptokens[1]), ptokens[2], Literals(items),
                                      ptokens[Len(ptokens)])>>
               ELSE /\ expressionList("expression", "TokenRightParen", 2).err # NoParseError
                    /\ perr # NoParseError
                    /\ statements = <<>>
        /\ (pdone /\ ptokens = Program(ParameterWords(items))) =>
               IF Separated(items)
               THEN /\ expressionList("atom", "TokenRightParen", 2) =
                           Res(Literals(items), 2 + Len(items), NoParseError)
                    /\ perr = NoParseError
                    /\ Len(statements) = 1
                    /\ statements[1].kind = "Func"
                    /\ statements[1].Params = Elements(items)
                    /\ statements[1].RightParen = ptokens[3 + Len(items)]
               ELSE /\ expressionList("atom", "TokenRightParen", 2).err # NoParseError
                    /\ perr # NoParseError
                    /\ statements = <<>>

\* C19's case: a call with two arguments and a comma after the second,
\* parsed.
C19_Witness ==
    /\ pdone
    /\ ptokens = Program(<<"f", "(", "a", ",", "b", ",", ")">>)
    /\ perr = NoParseError
    /\ Len(statements) = 1
    /\ Len(statements[1].Args) = 2

\* The positions of the parameters that are no identifier.
NotIdentifiers(params) == {i \in DOMAIN params : params[i] \notin Identifiers}

\* The index in ptokens of the ')' after the parameters.
ParamsEnd(params) == 2 + Len(Separate(params)) + 1

\* C20: 'func' '(' parameters ')' block parses to a Func node whose
\* parameters are exactly the identifier tokens in order and whose body is
\* the block that follows; a parameter that is another atomic token
\* (number, string, true, false, nil) is an invalid-parameter error for
\* that parameter, and no Func node is accepted.
C20_FuncParams ==
    \A params \in ParamLists, body \in FuncBlocks :
        (pdone /\ ptokens = Program(FuncWords(params, body))) =>
            IF NotIdentifiers(params) = {}
            THEN /\ perr = NoParseError
                 /\ Len(statements) = 1
                 /\ statements[1].kind = "Func"
                 /\ statements[1].Func = ptokens[1]
                 /\ statements[1].LeftParen = ptokens[2]
                 /\ statements[1].Params = [k \in DOMAIN params |-> ptokens[2 * k + 1]]
                 /\ statements[1].RightParen = ptokens[ParamsEnd(params)]
                 /\ statements[1].Body.kind = "Block"
                 /\ statements[1].Body.Children =
                        [k \in 1..(Len(body) - 2) |->
                            LiteralNode(ptokens[ParamsEnd(params) + 1 + k])]
            ELSE /\ perr =
                        InvalidFuncParamError(LiteralNode(
                            ptokens[2 * (CHOOSE i \in NotIdentifiers(params) :
                                             \A j \in NotIdentifiers(params) : i <= j) + 1]))
                 /\ statements = <<>>

\* C20's cases: a func of two parameters with a statement in its body,
\* parsed; and a parse ended at a parameter that is a keyword literal.
C20_Witness ==
    /\ pdone
    /\ ptokens = Program(<<"func", "(", "x", ",", "y", ")", "{", "x", "}">>)
    /\ Len(statements) = 1
    /\ statements[1].kind = "Func"
    /\ Len(statements[1].Params) = 2
    /\ Len(statements[1].Body.Children) = 1

C20_WitnessInvalid ==
    /\ pdone
    /\ ptokens = Program(<<"func", "(", "x", ",", "nil", ")", "{", "}">>)
    /\ perr.kind = "InvalidFuncParam"

\* The node of an operand of Operands whose first token is ptokens[at].
OperandNode(operand, at) ==
    CASE Len(operand) = 1 -> LiteralNode(ptokens[at])
      [] Len(operand) = 4 ->
             CallNode(LiteralNode(ptokens[at]), ptokens[at + 1],
                      <<LiteralNode(ptokens[at + 2])>>, ptokens[at + 3])
      [] Len(operand) = 3 -> LookupNode(LiteralNode(ptokens[at]), ptokens[at + 2])

\* The prefix operators ptokens[at..end] applied to the operand, the first
\* one outermost.
RECURSIVE Prefixed(_, _, _)
Prefixed(operand, at, end) ==
    IF at > end THEN OperandNode(operand, at)
    ELSE UnaryExprNode(GetToken(ptokens[at]), Prefixed(operand, at + 1, end))

\* C21: a prefix '!' or '-' applies to the unary expression after it,
\* nesting to the right (--x is Unary(-, Unary(-, x))); it binds tighter
\* than every binary operator and looser than a call or a lookup: -a * b is
\* (* (- a) b) and -f(x) is Unary(-, Call(f, [x])).
C21_PrefixBinding ==
    \A prefixes \in PrefixRuns, operand \in Operands, infix \in Infixes :
        /\ (pdone /\ ptokens = Program(UnaryWords(prefixes, operand, infix, "alone"))) =>
               /\ perr = NoParseError
               /\ statements = <<Prefixed(operand, 1, Len(prefixes))>>
        /\ (pdone /\ ptokens = Program(UnaryWords(prefixes, operand, infix, "left"))) =>
               /\ perr = NoParseError
               /\ statements =
                      <<BinaryExprNode(Prefixed(operand, 1, Len(prefixes)),
                                       GetToken(ptokens[Len(ptokens) - 1]),
                                       LiteralNode(ptokens[Len(ptokens)]))>>
        /\ (pdone /\ ptokens = Program(UnaryWords(prefixes, operand, infix, "right"))) =>
               /\ perr = NoParseError
               /\ statements =
                      <<BinaryExprNode(LiteralNode(ptokens[1]), GetToken(ptokens[2]),
                                       Prefixed(operand, 3, 2 + Len(prefixes)))>>

\* C21's case: - - f(x) * b parsed, the product at the root, the two
\* prefixes nested below it and the call below them.
C21_Witness ==
    /\ pdone
    /\ ptokens = Program(<<"-", "-", "f", "(", "x", ")", "*", "b">>)
    /\ Len(statements) = 1
    /\ statements[1].kind = "Binary"
    /\ statements[1].LHS.kind = "Unary"
    /\ statements[1].LHS.Operand.kind = "Unary"
    /\ statements[1].LHS.Operand.Operand.kind = "Call"

\* The index in ptokens of the first token of the i-th of the statements
\* good.
GoodAt(good, i) == Len(Concat(SubSeq(good, 1, i - 1))) + 1

\* Parse has ended with the error of the malformed statement bad and
\* returns exactly the statements good before it.
FailedAfter(good, bad) ==
    /\ perr.kind = bad.kind
    /\ Len(statements) = Len(good)
    /\ \A i \in 1..Len(good) :
           /\ statements[i].kind = StatementKind(good[i])
           /\ Atoms(statements[i]) =
                  AtomsBetween(GoodAt(good, i), GoodAt(good, i) + Len(good[i]) - 1)

\* The index in ptokens of the token that is wrong.
WrongAt(good, bad) == Len(Concat(good)) + bad.at

\* C22 as stated: Parse stops at the first syntax error and returns it with
\* exactly the statements parsed completely before the failing one, in
\* order; nothing of the failing statement or after it is returned, and no
\* token after the wrong one is consumed.
C22_NothingAfterErrorConsumed ==
    \A good \in GoodLists, bad \in Malformed, rest \in Rests :
        (pdone /\ ptokens = Program(FailWords(good, bad, rest))) =>
            /\ FailedAfter(good, bad)
            /\ curTokenIdx <= WrongAt(good, bad)

\* C22: Parse stops at the first syntax error and returns it with exactly
\* the statements parsed completely before the failing one, in order;
\* nothing of the failing statement or after it is returned.  At an
\* unexpected or a missing token the cursor stays before the wrong token; an
\* invalid assignment target is reported with its '=' consumed, an invalid
\* func parameter with the rest of the parameters and the ')' consumed; no
\* token of the rest is consumed.
C22_FailsFast ==
    \A good \in GoodLists, bad \in Malformed, rest \in Rests :
        (pdone /\ ptokens = Program(FailWords(good, bad, rest))) =>
            /\ FailedAfter(good, bad)
            /\ bad.kind \in {"UnexpectedToken", "ExpectedToken"} =>
                   curTokenIdx = WrongAt(good, bad) - 1
            /\ bad.kind = "InvalidAssignmentTarget" =>
                   /\ curTokenIdx = WrongAt(good, bad) + 1
                   /\ ptokens[curTokenIdx].id = "TokenEqual"
            /\ bad.kind = "InvalidFuncParam" =>
                   /\ curTokenIdx > WrongAt(good, bad)
                   /\ ptokens[curTokenIdx].id = "TokenRightParen"
            /\ curTokenIdx <= Len(ptokens) - Len(rest)

\* C22's case: two statements parsed, then func(1, x){} w rejected for its
\* first parameter with the cursor behind the ')'.
C22_Witness ==
    /\ pdone
    /\ perr.kind = "InvalidFuncParam"
    /\ Len(statements) = 2
    /\ statements[2].kind = "Block"
    /\ curTokenIdx > perr.actual.Value.column
    /\ ptokens[curTokenIdx].id = "TokenRightParen"
    /\ ptokens[Len(ptokens)].value = <<"w">>

\* C23: an expected-token error names the expected kind and, when a token
\* stands at the cursor, carries that token as the offending one; only when
\* no token is left does it carry just the last consumed token.
C23_ExpectedTokenCarriesActual ==
    (pdone /\ perr.kind = "ExpectedToken") =>
        /\ perr.expected \in {"TokenLeftParen", "TokenRightParen", "TokenLeftCurly",
                              "TokenRightCurly", "TokenComma", "TokenSemicolon",
                              "TokenEqual", "TokenIdentifier"}
        /\ IF curTokenIdx < Len(ptokens)
           THEN perr.actual = ptokens[curTokenIdx + 1]
           ELSE /\ perr.actual = NilToken
                /\ perr.last = ptokens[Len(ptokens)]

\* What a method call on a nil Node yields: the program panics.
Panic == [Token("panic", 0, 0) EXCEPT !.type = "panic"]

\* Node.GetStartToken, by variant.
RECURSIVE GetStartToken(_)
GetStartToken(n) ==
    CASE n.kind = "Conditional" -> n.If
      [] n.kind = "While" -> n.While
      [] n.kind = "For" -> n.For
      [] n.kind = "Block" -> n.BodyStart
      [] n.kind = "Assignment" -> n.LHS
      [] n.kind = "Call" -> GetStartToken(n.Function)
      [] n.kind = "Func" -> n.Func
      [] n.kind = "Return" -> n.Return
      [] n.kind = "Class" -> n.Class
      [] n.kind \in {"Binary", "Logical"} -> GetStartToken(n.LHS)
      [] n.kind = "Unary" -> n.Operator
      [] n.kind = "Lookup" -> GetStartToken(n.Value)
      [] n.kind = "Literal" -> n.Value
      [] OTHER -> Panic

\* Node.GetEndToken, by variant.
RECURSIVE GetEndToken(_)
GetEndToken(n) ==
    CASE n.kind = "Conditional" ->
             IF n.FalseBody # Nil THEN GetEndToken(n.FalseBody) ELSE GetEndToken(n.TrueBody)
      [] n.kind = "While" -> GetEndToken(n.Body)
      [] n.kind = "For" -> GetEndToken(n.Body)
      [] n.kind = "Block" -> n.BodyEnd
      [] n.kind = "Assignment" -> GetEndToken(n.RHS)
      [] n.kind = "Call" -> n.RightParen
      [] n.kind = "Func" -> n.RightParen
      [] n.kind = "Return" -> GetEndToken(n.Value)
      [] n.kind = "Class" -> n.BodyEnd
      [] n.kind \in {"Binary", "Logical"} -> GetEndToken(n.RHS)
      [] n.kind = "Unary" -> GetEndToken(n.Operand)
      [] n.kind = "Lookup" -> GetEndToken(n.Value)
      [] n.kind = "Literal" -> n.Value
      [] OTHER -> Panic

\* The index in ptokens of a token of it; the column of a token of the
\* inputs is its index.
IndexOf(tk) == tk.column

\* C24: of every statement Parse returns, GetStartToken is the first and
\* GetEndToken the last token consumed for it, and both are tokens of the
\* input: the first statement starts at the first token, each statement
\* starts right after the end of the one before it, and the last one ends
\* at the cursor.  So a Lookup ends at its key, a Func at the '}' of its
\* body, a Block starts at its '{' and ends at its '}', a Call ends at its
\* ')', and a Return without a value ends at 'return'.
C24_NodeSpans ==
    (perr = NoParseError /\ statements # <<>>) =>
        /\ \A i \in DOMAIN statements :
               /\ GetStartToken(statements[i]) \in {ptokens[j] : j \in DOMAIN ptokens}
               /\ GetEndToken(statements[i]) \in {ptokens[j] : j \in DOMAIN ptokens}
        /\ IndexOf(GetStartToken(statements[1])) = 1
        /\ \A i \in 1..(Len(statements) - 1) :
               IndexOf(GetStartToken(statements[i + 1])) =
                   IndexOf(GetEndToken(statements[i])) + 1
        /\ IndexOf(GetEndToken(statements[Len(statements)])) = curTokenIdx

\* C25: every invalid-assignment-target error carries a token, one of the
\* input, that gives the place of the left-hand side, whatever its shape:
\* a literal that is no identifier, a lookup a.b, a call f(), a binary
\* expression a + b.
C25_TargetTokenPresent ==
    (pdone /\ perr.kind = "InvalidAssignmentTarget") =>
        /\ perr.target # NilToken
        /\ perr.target \in {ptokens[j] : j \in 1..curTokenIdx}

\* The kinds the parser asks match and maybeMatch for.
RequestedKinds ==
    atomicTokenIDs \cup unaryOperatorTokenIDs \cup BinaryOperators
        \cup {"TokenLeftParen", "TokenRightParen", "TokenLeftCurly", "TokenRightCurly",
              "TokenComma", "TokenSemicolon", "TokenEqual", "TokenFunc", "TokenWhile"}

\* The cursor positions of ptokens.
Cursors == 0..Len(ptokens)

\* A token of kind id stands at the cursor.
KindAt(cur, id) == cur < Len(ptokens) /\ ptokens[cur + 1].id = id

\* What peek, last, consume, maybeMatch and match do at every cursor
\* position of ptokens.
CursorPrimitives ==
    \A cur \in Cursors :
        /\ peek(cur) = IF cur < Len(ptokens) THEN ptokens[cur + 1] ELSE NilToken
        /\ last(cur) = IF cur > 0 THEN ptokens[cur] ELSE NilToken
        /\ consume(cur).cur = IF cur < Len(ptokens) THEN cur + 1 ELSE cur
        /\ \A id \in RequestedKinds :
               /\ maybeMatch(cur, id).cur = IF KindAt(cur, id) THEN cur + 1 ELSE cur
               /\ (maybeMatch(cur, id).token # NilToken) = KindAt(cur, id)
               /\ match(cur, id).cur = IF KindAt(cur, id) THEN cur + 1 ELSE cur
               /\ (match(cur, id).err = NoParseError) = KindAt(cur, id)
        /\ maybeStatement(cur).cur \in cur..Len(ptokens)

\* C27: the cursor only moves forward and the tokens are never written:
\* 0 <= cursor <= number of tokens in every state; peek and last read the
\* token at and before the cursor; maybeMatch and match advance the cursor
\* by exactly one when the token at it has the requested kind and leave it
\* where it is otherwise, match with an error; no step of Parse, and no
\* statement read from any position, moves the cursor back.
C27_CursorForwardOnly ==
    [][/\ curTokenIdx \in Cursors
       /\ curTokenIdx' \in curTokenIdx..Len(ptokens)
       /\ ptokens' = ptokens
       /\ CursorPrimitives]_vars

\* C27's case: a parse ended by a failed match with the cursor inside the
\* tokens, after matches that advanced it.
C27_Witness ==
    /\ pdone
    /\ perr.kind = "ExpectedToken"
    /\ curTokenIdx > 1
    /\ curTokenIdx < Len(ptokens)
    /\ match(curTokenIdx, perr.expected).cur = curTokenIdx
    /\ match(curTokenIdx - 1, ptokens[curTokenIdx].id).cur = curTokenIdx

\* Parse has returned a nil error.
Succeeded == pdone /\ perr = NoParseError

\* The statements' spans, by GetStartToken and GetEndToken, lie end to end
\* from the first token to the last.
SpansTile ==
    /\ statements = <<>> => Len(ptokens) = 0
    /\ statements # <<>> =>
           /\ IndexOf(GetStartToken(statements[1])) = 1
           /\ IndexOf(GetEndToken(statements[Len(statements)])) = Len(ptokens)
    /\ \A i \in 1..(Len(statements) - 1) :
           IndexOf(GetStartToken(statements[i + 1])) = IndexOf(GetEndToken(statements[i])) + 1

\* On success the cursor is the number of tokens: a parse that meets a
\* stray token ends with an error at that token.
SuccessConsumesAll ==
    /\ Succeeded => curTokenIdx = Len(ptokens)
    /\ pdone /\ curTokenIdx < Len(ptokens) => perr # NoParseError

\* C28: Parse returns a nil error only when every token has been consumed:
\* on success the cursor equals the number of tokens and the concatenated
\* spans of the returned statements cover the whole token sequence.
C28_SuccessCoversTokens ==
    Succeeded => curTokenIdx = Len(ptokens) /\ SpansTile

(***************************************************************************)
(* Termination: a Tokenizer and a Parser, each running its loop to its end *)
(***************************************************************************)

\* A Tokenizer over a text beside a Parser over two statements.
BothInit ==
    /\ input \in CompareExamples
    /\ r = 0
    /\ lastRuneSize = -1
    /\ line = 1
    /\ column = 0
    /\ tokens = <<>>
    /\ err = NoError
    /\ done = FALSE
    /\ starts = <<>>
    /\ ends = <<>>
    /\ errAt = 0
    /\ ptokens \in TwoStatements
    /\ curTokenIdx = 0
    /\ statements = <<>>
    /\ perr = NoParseError
    /\ pdone = FALSE

\* A Tokenizer over any text beside a Parser over no tokens, a Parser over
\* any tokens beside a Tokenizer over the empty text, or both at work.
TermInit == Init \/ ParseInit \/ BothInit

TermNext == Next \/ ParseNext

\* Tokenize's loop can take an iteration until it has returned, and so can
\* Parse's: ENABLED <<Next>>_vars and ENABLED <<ParseNext>>_vars, written
\* out.  Every action of Next appends a token, returns, or skips to a later
\* position (NoIdleIteration); every action of ParseNext appends a statement
\* or returns.
TokenizeRuns == ~done

ParseRuns == ~pdone

\* Tokenize and Parse are loops without blocking calls: an iteration that
\* can be taken is taken.  This is WF_vars(Next) /\ WF_vars(ParseNext).
Fairness ==
    /\ []<>~TokenizeRuns \/ []<><<Next>>_vars
    /\ []<>~ParseRuns \/ []<><<ParseNext>>_vars

TermSpec == TermInit /\ [][TermNext]_vars /\ Fairness

\* An iteration of Tokenize's loop consumes at least one code point, net of
\* what it pushes back, or is the last; an iteration of Parse's loop
\* consumes at least one token or is the last.
IterationProgress ==
    /\ lexVars' # lexVars => r' > r \/ done'
    /\ parseVars' # parseVars => curTokenIdx' > curTokenIdx \/ pdone'

\* The positions after the iterations of Tokenize that append nothing and
\* do not return: white space and a comment.
Skipped == {space(T0, Cur), consumeUntilEOL(consumeIfNext(T0, "/").t)}

\* No iteration of Tokenize leaves the scanner where it was.
NoIdleIteration == ~done /\ Rd.err = "nil" => \A t \in Skipped : t.r > r

\* The bodies of the parser's loops: from every cursor position, a
\* statement (block loop, Parse), an expression (argument list) or a class
\* member read without error ends behind its start, and so does a match
\* that succeeds (call suffixes, binary operators, commas).
LoopProgress ==
    \A cur \in Cursors :
        /\ statement(cur).err = NoParseError => statement(cur).cur > cur
        /\ expression(cur).err = NoParseError => expression(cur).cur > cur
        /\ maybeStatement(cur).err = NoParseError /\ maybeStatement(cur).node # Nil =>
               maybeStatement(cur).cur > cur
        /\ \A id \in RequestedKinds \cup {"TokenDot", "TokenIdentifier"} :
               maybeMatch(cur, id).token # NilToken => maybeMatch(cur, id).cur > cur

\* C29: Tokenize ends on every text and Parse on every token sequence:
\* every iteration of their loops consumes at least one code point or token
\* or is the last one, the bodies of the parser's inner loops consume at
\* least one token when they do not fail, and every run reaches the state
\* in which both have returned.
C29_Terminates ==
    /\ [][/\ IterationProgress
          /\ NoIdleIteration
          /\ curTokenIdx = 0 /\ ~pdone => LoopProgress]_vars
    /\ <>[](done /\ pdone)

\* C29's case: both loops have ended after several iterations each.
C29_Witness ==
    /\ done
    /\ pdone
    /\ Len(tokens) >= 2
    /\ Len(statements) >= 2
    /\ r = Len(input)
    /\ curTokenIdx = Len(ptokens)

\* The literal of the token at index i.
Leaf(i) == LiteralNode(ptokens[i])

\* The conditional with 'if' at index i and no 'else'.
IfThen(i, condition, trueBody) ==
    ConditionalNode(ptokens[i], condition, trueBody, NilToken, Nil)

\* The conditional with 'if' at index i and 'else' at index e.
IfThenElse(i, condition, trueBody, e, falseBody) ==
    ConditionalNode(ptokens[i], condition, trueBody, ptokens[e], falseBody)

\* The tree of each shape of IfShapes, every 'else' with the nearest 'if'
\* before it that has none.
IfTree(shape) ==
    CASE shape = "plain" -> IfThen(1, Leaf(3), Leaf(5))
      [] shape = "else" -> IfThenElse(1, Leaf(3), Leaf(5), 6, Leaf(7))
      [] shape = "dangling" ->
             IfThen(1, Leaf(3), IfThenElse(5, Leaf(7), Leaf(9), 10, Leaf(11)))
      [] shape = "both" ->
             IfThenElse(1, Leaf(3), IfThenElse(5, Leaf(7), Leaf(9), 10, Leaf(11)),
                        12, Leaf(13))
      [] shape = "chain" ->
             IfThenElse(1, Leaf(3), Leaf(5), 6,
                        IfThenElse(7, Leaf(9), Leaf(11), 12, Leaf(13)))
      [] shape = "deep" ->
             IfThen(1, Leaf(3),
                    IfThen(5, Leaf(7), IfThenElse(9, Leaf(11), Leaf(13), 14, Leaf(15))))
      [] shape = "block" ->
             IfThenElse(1, Leaf(3),
                        BlockNode(ZeroToken, <<IfThen(6, Leaf(8), Leaf(10))>>, ZeroToken),
                        12, Leaf(13))

\* The tokens are a conditional of the shape, and then rest.
IfAt(shape, rest) == ptokens = Program(IfShapes[shape] \o rest)

\* The conditionals among the parsed nodes.
Conditionals == {node \in Parsed : node.kind = "Conditional"}

\* C30: an 'else' belongs to the nearest 'if' before it that has none: the
\* first statement parsed from each shape is the shape's tree, so that
\* 'if (a) if (b) x else y' is an outer conditional without false branch
\* around the inner one with x and y; a conditional without 'else' has no
\* false branch, and the cursor after it stands at the end of its true
\* branch, where the next statement is read.
C30_DanglingElse ==
    /\ \A shape \in DOMAIN IfShapes, rest \in IfRests :
           IfAt(shape, rest) /\ statements # <<>> =>
               /\ statements[1] = IfTree(shape)
               /\ perr = NoParseError
               /\ Len(statements) = 1 /\ ~pdone => curTokenIdx = Len(IfShapes[shape])
               /\ pdone => curTokenIdx = Len(ptokens)
    /\ \A node \in Conditionals : (node.Else = NilToken) = (node.FalseBody = Nil)

\* C30's case: 'if (a) if (b) x else y' and a following statement are
\* parsed, the outer conditional without a false branch.
C30_Witness ==
    /\ pdone
    /\ IfAt("dangling", <<"w">>)
    /\ Len(statements) = 2
    /\ statements[1].FalseBody = Nil
    /\ statements[1].TrueBody.FalseBody = Leaf(11)
    /\ statements[2] = Leaf(12)

\* C30's other case: a conditional without 'else' is followed by a
\* statement, which starts right after the true branch.
C30_WitnessNoElse ==
    /\ pdone
    /\ IfAt("plain", <<"w", "=", "1">>)
    /\ Len(statements) = 2
    /\ statements[1] = IfThen(1, Leaf(3), Leaf(5))
    /\ statements[2].kind = "Assignment"

====
